---- MODULE Spec2Model ----
(***************************************************************************)
(* Tag Genius (src/app.py): the classification - cache - render pipeline.  *)
(*                                                                         *)
(* JSON values are tagged records of one shape, so that a value of any     *)
(* JSON type can sit in any field: t is the type, s the elements of a list *)
(* (or the one string of a scalar string), n the number.                   *)
(***************************************************************************)
EXTENDS Integers, Sequences, FiniteSets, Bags, TLC

VARIABLES
    store,      \* the tracks table: a bag of rows
    job,        \* processing_log row of the current job
    run,        \* locals of process_library_task (config, track index, pc, ...)
    tracks,     \* the TRACK elements of the parsed collection (mutated in place)
    call,       \* locals of the call_llm_for_tags invocation in progress
    obs,        \* what the current track's processing did (history)
    fin,        \* input of a function applied on its own
    fout        \* its result

vars == <<store, job, run, tracks, call, obs, fin, fout>>

-----------------------------------------------------------------------------
(* Bounds of the model *)
MaxLen == 2        \* longest tag list the classifier returns
MaxCap == 3        \* largest per-category cap of a detail configuration
MaxTracks == 2     \* tracks of one collection
MaxRuns == 2       \* runs one after the other

-----------------------------------------------------------------------------
(* JSON values *)
JAbsent == [t |-> "absent", s |-> <<>>, n |-> 0]      \* key not in the dict
JNull == [t |-> "null", s |-> <<>>, n |-> 0]
JList(elems) == [t |-> "list", s |-> elems, n |-> 0]
JStr(x) == [t |-> "str", s |-> <<x>>, n |-> 0]
JInt(k) == [t |-> "int", s |-> <<>>, n |-> k]
JFloat(k) == [t |-> "float", s |-> <<>>, n |-> k]     \* k + 0.5

Min(a, b) == IF a <= b THEN a ELSE b
Max(a, b) == IF a >= b THEN a ELSE b

\* Python truthiness of a JSON value (an absent key reads as None)
Truthy(v) ==
    CASE v.t = "absent" -> FALSE
      [] v.t = "null" -> FALSE
      [] v.t = "list" -> v.s # <<>>
      [] v.t = "str" -> v.s # <<"">>
      [] v.t = "int" -> v.n # 0
      [] OTHER -> TRUE

\* lst[:n] for n an int (negative n counts from the end)
PySlice(lst, n) ==
    IF n >= 0 THEN SubSeq(lst, 1, Min(n, Len(lst)))
    ELSE SubSeq(lst, 1, Max(Len(lst) + n, 0))

-----------------------------------------------------------------------------
(* Blueprints: the dict the classifier returns, one field per key. *)
list_keys_to_trim ==
    {"sub_genre", "components", "energy_vibe", "situation_environment",
     "time_period"}

BlueprintKeys == list_keys_to_trim \cup {"primary_genre", "energy_level", "extra"}

EmptyDict == [k \in BlueprintKeys |-> JAbsent]

\* json.dumps / json.loads: the column holds the text, the text decodes to
\* the value it was made from (the values are JSON-born: str, int, list, null)
json_dumps(v) == [null |-> FALSE, json |-> v]
json_loads(text) == text.json

SqlNull == [null |-> TRUE, json |-> EmptyDict]       \* a NULL tags_json

\* a Python value that is a dict or None
PyNone == [none |-> TRUE, d |-> EmptyDict]
PyDict(d) == [none |-> FALSE, d |-> d]
\* bool(x) of a dict or None
DictTruthy(x) == ~x.none /\ x.d # EmptyDict

MASTER_BLUEPRINT_CONFIG ==
    [level |-> "Detailed", sub_genre |-> JInt(3), energy_vibe |-> JInt(3),
     situation_environment |-> JInt(3), components |-> JInt(3),
     time_period |-> JInt(1)]

\* apply_user_config_to_tags raises TypeError when a cap is no int
\* (a list index must be an integer or None)
ApplyConfigRaises(blueprint_tags, user_config) ==
    \E key \in list_keys_to_trim :
        /\ blueprint_tags[key].t # "absent"
        /\ user_config[key].t # "absent"
        /\ blueprint_tags[key].t = "list"
        /\ user_config[key].t \notin {"int", "null"}

\* a trim that keeps the last entries instead of the first
TrimKeepLast(lst, num_tags_to_keep) ==
    IF num_tags_to_keep.t = "null" THEN lst
    ELSE SubSeq(lst, Max(Len(lst) - num_tags_to_keep.n, 0) + 1, Len(lst))

\* a trim that always drops at least the last entry
TrimOneMore(lst, num_tags_to_keep) ==
    IF num_tags_to_keep.t = "null" \/ Len(lst) = 0 THEN lst
    ELSE PySlice(lst, Min(num_tags_to_keep.n, Len(lst) - 1))

\* rendered_tags[key][:num_tags_to_keep]
Trim(lst, num_tags_to_keep) ==
    IF num_tags_to_keep.t = "null" THEN lst
    ELSE PySlice(lst, num_tags_to_keep.n)

apply_user_config_to_tags(blueprint_tags, user_config) ==
    LET rendered_tags == json_loads(json_dumps(blueprint_tags))
    IN [key \in BlueprintKeys |->
          IF /\ key \in list_keys_to_trim
             /\ rendered_tags[key].t # "absent"
             /\ user_config[key].t # "absent"
             /\ rendered_tags[key].t = "list"
          THEN JList(Trim(rendered_tags[key].s, user_config[key]))
          ELSE rendered_tags[key]]

-----------------------------------------------------------------------------
(* call_llm_for_tags: the classifier client *)
max_retries == 5
initial_delay == 2

Fallback(mode) ==
    IF mode = "genre_only"
    THEN [EmptyDict EXCEPT !.primary_genre = JList(<<"Miscellaneous">>),
                           !.sub_genre = JList(<<>>)]
    ELSE [EmptyDict EXCEPT !.primary_genre = JList(<<"Miscellaneous">>),
                           !.sub_genre = JList(<<>>),
                           !.energy_level = JNull]

MockTags(mode) ==
    IF mode = "genre_only"
    THEN [EmptyDict EXCEPT !.primary_genre = JList(<<"Miscellaneous">>),
                           !.sub_genre = JList(<<>>)]
    ELSE [EmptyDict EXCEPT !.primary_genre = JList(<<"mock techno">>),
                           !.sub_genre = JList(<<>>),
                           !.energy_level = JInt(7)]

\* an object returned as the service sent it
NormalizeResponseRaw(json_response, mode) == json_response

\* lines 494-518: what is done to the decoded object before it is returned
NormalizeResponse(json_response, mode) ==
    LET pg == json_response.primary_genre
        sg == json_response.sub_genre
    IN [json_response EXCEPT
          !.primary_genre =
              IF pg.t = "str" THEN JList(pg.s)
              ELSE IF pg.t # "list" THEN JList(<<"Miscellaneous">>)
              ELSE pg,
          !.sub_genre =
              IF mode = "genre_only" /\ sg.t = "absent" THEN JList(<<>>)
              ELSE IF sg.t # "absent" /\ sg.t # "list" THEN JList(<<>>)
              ELSE sg]

\* What one request to the service can come to (lines 479-490):
\*   transport        requests.post raises (timeout, connection error)
\*   http_error       raise_for_status raises HTTPError
\*   body_not_json    response.json() cannot decode the body
\*   bad_shape        the body is no object, "choices" is [], or a level
\*                    below it is no object: IndexError / AttributeError
\*   no_content       no "choices" key, no "message", content null or ""
\*   content_not_json json.loads(text_part) raises JSONDecodeError
\*   content_not_object  the content decodes to a list, number, string, null
\*   object           the content decodes to an object
ServiceKinds ==
    {"transport", "http_error", "body_not_json", "bad_shape", "no_content",
     "content_not_json", "content_not_object", "object"}

\* except-clause taken by an attempt; response.json() raises
\* requests.exceptions.JSONDecodeError, which newer releases of requests
\* derive from RequestException (first clause) and older ones do not
\* (second clause): the build decides, so both are outcomes.
AttemptHandlers(kind) ==
    CASE kind \in {"transport", "http_error"} -> {"retry_sleep"}
      [] kind = "body_not_json" -> {"retry_sleep", "fallback"}
      [] kind = "bad_shape" -> {"raise"}
      [] kind = "no_content" -> {"next"}
      [] kind = "content_not_json" -> {"fallback"}
      [] kind = "content_not_object" -> {"raise"}
      [] kind = "object" -> {"return"}

NoCall ==
    [status |-> "idle", mode |-> "full", attempt |-> 0, requests |-> 0,
     sleeps |-> 0, delay |-> 0, result |-> EmptyDict, last |-> "none"]

\* lines 401-413: before the first request
\*   no API key: the mock tags; a None artist or title: re.sub raises TypeError
BeginCall(api_key, artist_present, title_present, mode) ==
    IF ~api_key
    THEN [NoCall EXCEPT !.status = "returned", !.mode = mode,
                        !.result = MockTags(mode)]
    ELSE IF ~artist_present \/ ~title_present
    THEN [NoCall EXCEPT !.status = "raised", !.mode = mode]
    ELSE [NoCall EXCEPT !.status = "running", !.mode = mode]

\* an attempt loop that goes on asking after the fifth failure
AttemptStepNoCeiling(c, kind, handler, response) ==
    LET sent == [c EXCEPT !.requests = @ + 1, !.last = kind]
        after == [sent EXCEPT !.attempt = @ + 1]
    IN CASE handler = "retry_sleep" ->
              [after EXCEPT !.sleeps = @ + 1,
                            !.delay = initial_delay * (2 ^ c.attempt)]
         [] handler = "next" -> after
         [] handler = "fallback" ->
              [sent EXCEPT !.status = "returned", !.result = Fallback(c.mode)]
         [] handler = "raise" -> [sent EXCEPT !.status = "raised"]
         [] handler = "return" ->
              [sent EXCEPT !.status = "returned",
                           !.result = NormalizeResponse(response, c.mode)]

\* lines 476-541: one pass of the for loop, and the return after the loop
\* when that was the last pass
AttemptStep(c, kind, handler, response) ==
    LET sent == [c EXCEPT !.requests = @ + 1, !.last = kind]
        after == [sent EXCEPT !.attempt = @ + 1]
        exhausted(x) ==
            IF x.attempt >= max_retries
            THEN [x EXCEPT !.status = "returned", !.result = Fallback(c.mode)]
            ELSE x
    IN CASE handler = "retry_sleep" ->
              exhausted([after EXCEPT !.sleeps = @ + 1,
                                      !.delay = initial_delay * (2 ^ c.attempt)])
         [] handler = "next" -> exhausted(after)
         [] handler = "fallback" ->
              [sent EXCEPT !.status = "returned", !.result = Fallback(c.mode)]
         [] handler = "raise" -> [sent EXCEPT !.status = "raised"]
         [] handler = "return" ->
              [sent EXCEPT !.status = "returned",
                           !.result = NormalizeResponse(response, c.mode)]

-----------------------------------------------------------------------------
(* TRACK elements.  An attribute is present or not; its text is a sequence *)
(* of tokens: "/", "*", " " and the newline are single characters, every   *)
(* other token is a run of text holding none of them at its ends.          *)
NoAttr == [has |-> FALSE, v |-> <<>>]
Attr(v) == [has |-> TRUE, v |-> v]
\* element.get(name, '') and element.get(name)
GetOr(a, default) == IF a.has THEN a.v ELSE default

Whitespace == {" ", "\n"}

RECURSIVE LStrip(_)
LStrip(s) ==
    IF s # <<>> /\ Head(s) \in Whitespace THEN LStrip(Tail(s)) ELSE s

RECURSIVE RStrip(_)
RStrip(s) ==
    IF s # <<>> /\ s[Len(s)] \in Whitespace
    THEN RStrip(SubSeq(s, 1, Len(s) - 1)) ELSE s

\* str.strip()
Strip(s) == RStrip(LStrip(s))

\* where the block opened at i closes: the first "*/" at or after i + 2
\* with no newline before it ("." matches no newline), 0 when there is none
BlockClose(s, i) ==
    LET ends == {j \in (i + 2)..(Len(s) - 1) :
                    /\ s[j] = "*" /\ s[j + 1] = "/"
                    /\ \A k \in (i + 2)..(j - 1) : s[k] # "\n"}
    IN IF ends = {} THEN 0 ELSE CHOOSE j \in ends : \A k \in ends : j <= k

\* re.sub(r'/\*.*?\*/', '', s): leftmost, non-greedy, non-overlapping
RECURSIVE RemoveBlocksFrom(_, _)
RemoveBlocksFrom(s, i) ==
    IF i > Len(s) THEN <<>>
    ELSE IF /\ i < Len(s) /\ s[i] = "/" /\ s[i + 1] = "*"
            /\ BlockClose(s, i) # 0
    THEN RemoveBlocksFrom(s, BlockClose(s, i) + 2)
    ELSE <<s[i]>> \o RemoveBlocksFrom(s, i + 1)

RemoveBlocks(s) == RemoveBlocksFrom(s, 1)

ManualOverride == <<"0xFF0000">>

clear_ai_tags(track_element) ==
    LET current_comments == GetOr(track_element.Comments, <<>>)
        cleaned_comments == Strip(RemoveBlocks(current_comments))
        pinned == track_element.Colour.has
                  /\ track_element.Colour.v = ManualOverride
    IN [track_element EXCEPT
          !.Comments = Attr(cleaned_comments),
          !.Colour = IF pinned THEN @ ELSE NoAttr,
          !.Grouping = IF pinned THEN @ ELSE NoAttr,
          !.Rating = Attr(<<"0">>)]

-----------------------------------------------------------------------------
(* Rendering a blueprint into the TRACK (process_library_task, 915-994) *)

\* list elements that are no strings (a JSON number inside a tag list)
NonStringTags == {"#1990"}

ensure_list(value) ==
    IF value.t \in {"str", "list"} THEN value.s ELSE <<>>

RECURSIVE NonEmpty(_)
NonEmpty(s) ==
    IF s = <<>> THEN <<>>
    ELSE IF Head(s) = "" THEN NonEmpty(Tail(s))
    ELSE <<Head(s)>> \o NonEmpty(Tail(s))

HasNonString(s) == \E i \in DOMAIN s : s[i] \in NonStringTags

\* a join that keeps the empty entries
NewGenrePartsAll(tags_for_xml) ==
    ensure_list(tags_for_xml.primary_genre)
    \o ensure_list(tags_for_xml.sub_genre)

\* the entries joined by ", " into the Genre string ('' is <<>>)
NewGenreParts(tags_for_xml) ==
    NonEmpty(ensure_list(tags_for_xml.primary_genre)
             \o ensure_list(tags_for_xml.sub_genre))

\* str.capitalize() of the tags of the model
Capitalize(t) ==
    CASE t = "Deep House" -> "Deep house"
      [] t = "Tech House" -> "Tech house"
      [] t = "Peak Hour" -> "Peak hour"
      [] t = "vocal" -> "Vocal"
      [] t = "mock techno" -> "Mock techno"
      [] OTHER -> t

RECURSIVE JoinWith(_, _)
JoinWith(parts, sep) ==
    IF parts = <<>> THEN <<>>
    ELSE IF Len(parts) = 1 THEN Head(parts)
    ELSE Head(parts) \o sep \o JoinWith(Tail(parts), sep)

RECURSIVE CapitalizeAll(_)
CapitalizeAll(s) ==
    IF s = <<>> THEN <<>>
    ELSE <<(<<Capitalize(Head(s))>>)>> \o CapitalizeAll(Tail(s))

\* str(energy_level).zfill(2)
ZFill2(n) ==
    IF n >= 0 /\ n <= 9
    THEN <<"00", "01", "02", "03", "04", "05", "06", "07", "08", "09">>[n + 1]
    ELSE ToString(n)

tag_order_and_prefixes ==
    << <<"situation_environment", "Sit">>, <<"energy_vibe", "Vibe">>,
       <<"components", "Comp">>, <<"time_period", "Time">> >>

\* "<Prefix>: <Tag1, Tag2>" for one category, <<>> when it adds no part
CategoryPart(tags_for_xml, entry) ==
    LET tags == ensure_list(tags_for_xml[entry[1]])
        tag_string == JoinWith(CapitalizeAll(NonEmpty(tags)), <<",", " ">>)
    IN IF tags # <<>> /\ tag_string # <<>>
       THEN << <<entry[2], ":", " ">> \o tag_string >>
       ELSE <<>>

formatted_parts(tags_for_xml) ==
    (IF tags_for_xml.energy_level.t = "int"
     THEN << <<"E", ":", " ", ZFill2(tags_for_xml.energy_level.n)>> >>
     ELSE <<>>)
    \o CategoryPart(tags_for_xml, tag_order_and_prefixes[1])
    \o CategoryPart(tags_for_xml, tag_order_and_prefixes[2])
    \o CategoryPart(tags_for_xml, tag_order_and_prefixes[3])
    \o CategoryPart(tags_for_xml, tag_order_and_prefixes[4])

final_comments_content(tags_for_xml) ==
    JoinWith(formatted_parts(tags_for_xml), <<" ", "/", " ">>)

new_comments(tags_for_xml) ==
    LET content == final_comments_content(tags_for_xml)
    IN IF content # <<>>
       THEN <<"/", "*", " ">> \o content \o <<" ", "*", "/">>
       ELSE <<>>

\* lines 924-957 raise on an entry that is no string: ", ".join raises
\* TypeError, t.strip() raises AttributeError
RenderRaises(tags_for_xml) ==
    \/ HasNonString(ensure_list(tags_for_xml.primary_genre))
    \/ HasNonString(ensure_list(tags_for_xml.sub_genre))
    \/ \E i \in 1..4 :
          HasNonString(ensure_list(tags_for_xml[tag_order_and_prefixes[i][1]]))

\* a staircase without the step at level 8
convert_energy_to_rating_no8(energy_level) ==
    IF energy_level.t \notin {"int", "float"} THEN 0
    ELSE IF energy_level.n >= 9 THEN 255
    ELSE IF energy_level.n >= 6 THEN 153
    ELSE IF energy_level.n >= 4 THEN 102
    ELSE 51

convert_energy_to_rating(energy_level) ==
    IF energy_level.t \notin {"int", "float"} THEN 0
    ELSE IF energy_level.n >= 9 THEN 255
    ELSE IF energy_level.t = "int" /\ energy_level.n = 8 THEN 204
    ELSE IF energy_level.n >= 6 THEN 153
    ELSE IF energy_level.n >= 4 THEN 102
    ELSE 51

\* lines 962-978: (hex, name), <<>> when no colour is chosen
TrackColour(energy_level) ==
    IF energy_level.t # "int" THEN <<>>
    ELSE IF energy_level.n >= 9 THEN <<"0xFF007F", "Pink">>
    ELSE IF energy_level.n = 8 THEN <<"0xFFA500", "Orange">>
    ELSE IF energy_level.n >= 6 THEN <<"0xFFFF00", "Yellow">>
    ELSE IF energy_level.n >= 4 THEN <<"0x00FF00", "Green">>
    ELSE <<"0x25FDE9", "Aqua">>

\* lines 915-994: the TRACK after the blueprint has been written into it
RenderTrack(track, tags_for_xml) ==
    LET cleared == clear_ai_tags(track)
        new_genre == NewGenreParts(tags_for_xml)
        existing_comments == Strip(GetOr(cleared.Comments, <<>>))
        comments == Strip(existing_comments \o <<" ">>
                          \o new_comments(tags_for_xml))
        pinned == cleared.Colour.has /\ cleared.Colour.v = ManualOverride
        colour == TrackColour(tags_for_xml.energy_level)
        energy_level == tags_for_xml.energy_level
        rating_value == IF energy_level.t \notin {"null", "absent"}
                        THEN convert_energy_to_rating(energy_level) ELSE 0
    IN [cleared EXCEPT
          !.Genre = Attr(IF new_genre # <<>> THEN new_genre
                         ELSE GetOr(cleared.Genre, <<>>)),
          !.Comments = Attr(comments),
          !.Colour = IF pinned THEN @
                     ELSE IF colour # <<>> THEN Attr(<<colour[1]>>)
                     ELSE NoAttr,
          !.Grouping = IF pinned THEN @
                       ELSE IF colour # <<>> THEN Attr(<<colour[2]>>)
                       ELSE NoAttr,
          !.Rating = Attr(<<ToString(rating_value)>>)]

-----------------------------------------------------------------------------
(* The tracks table (get_track_blueprint, insert_track_data).  The columns *)
(* the pipeline never reads back (bpm, genre, comments, ...) and the tag   *)
(* link tables are left out; an error in any statement of the transaction  *)
(* is the db_ok = FALSE outcome (db_cursor rolls back and re-raises).      *)

\* WHERE name = %s AND artist = %s: a NULL on either side matches nothing
MatchingRows(rows, name, artist) ==
    {r \in BagToSet(rows) :
        /\ name.has /\ artist.has
        /\ r.name = name /\ r.artist = artist}

OneRow(r) == SetToBag({r})

\* a lookup that finds nothing
get_track_blueprint_blind(rows, name, artist, db_ok) == {PyNone}

\* the values get_track_blueprint can return (fetchone takes any matching row)
get_track_blueprint(rows, name, artist, db_ok) ==
    LET found == MatchingRows(rows, name, artist)
    IN IF ~db_ok \/ found = {} THEN {PyNone}
       ELSE {IF r.tags.null THEN PyNone ELSE PyDict(json_loads(r.tags)) :
                r \in found}

\* a write that keeps the blueprint a row already has
insert_track_data_keep(rows, name, artist, tags_dict, db_ok) ==
    LET found == MatchingRows(rows, name, artist)
        tags_json_string ==
            IF tags_dict.none THEN SqlNull ELSE json_dumps(tags_dict.d)
    IN IF ~db_ok THEN {rows}
       ELSE IF found # {}
       THEN {IF tags_json_string.null \/ ~r.tags.null THEN rows
             ELSE (rows (-) OneRow(r))
                  (+) OneRow([r EXCEPT !.tags = tags_json_string]) :
                r \in found}
       ELSE IF ~name.has THEN {rows}
       ELSE {rows (+) OneRow([name |-> name, artist |-> artist,
                              tags |-> tags_json_string])}

\* a write without a blueprint that empties the tags_json of the row
insert_track_data_wipe(rows, name, artist, tags_dict, db_ok) ==
    LET found == MatchingRows(rows, name, artist)
        tags_json_string ==
            IF tags_dict.none THEN SqlNull ELSE json_dumps(tags_dict.d)
    IN IF ~db_ok THEN {rows}
       ELSE IF found # {}
       THEN {(rows (-) OneRow(r))
             (+) OneRow([r EXCEPT !.tags = tags_json_string]) : r \in found}
       ELSE IF ~name.has THEN {rows}
       ELSE {rows (+) OneRow([name |-> name, artist |-> artist,
                              tags |-> tags_json_string])}

\* a write that adds no row when it has no blueprint
insert_track_data_lazy(rows, name, artist, tags_dict, db_ok) ==
    LET found == MatchingRows(rows, name, artist)
        tags_json_string ==
            IF tags_dict.none THEN SqlNull ELSE json_dumps(tags_dict.d)
    IN IF ~db_ok \/ tags_json_string.null THEN {rows}
       ELSE IF found # {}
       THEN {(rows (-) OneRow(r))
             (+) OneRow([r EXCEPT !.tags = tags_json_string]) : r \in found}
       ELSE IF ~name.has THEN {rows}
       ELSE {rows (+) OneRow([name |-> name, artist |-> artist,
                              tags |-> tags_json_string])}

\* the tables insert_track_data can leave
insert_track_data(rows, name, artist, tags_dict, db_ok) ==
    LET found == MatchingRows(rows, name, artist)
        tags_json_string ==
            IF tags_dict.none THEN SqlNull ELSE json_dumps(tags_dict.d)
    IN IF ~db_ok THEN {rows}
       ELSE IF found # {}
       THEN {IF tags_json_string.null THEN rows
             ELSE (rows (-) OneRow(r))
                  (+) OneRow([r EXCEPT !.tags = tags_json_string]) :
                r \in found}
       ELSE IF ~name.has THEN {rows}       \* name TEXT NOT NULL
       ELSE {rows (+) OneRow([name |-> name, artist |-> artist,
                              tags |-> tags_json_string])}

\* the transaction of insert_track_data ends in psycopg.Error
InsertFails(rows, name, artist, db_ok) ==
    ~db_ok \/ (MatchingRows(rows, name, artist) = {} /\ ~name.has)

-----------------------------------------------------------------------------
(* Inputs of the runs *)
BlankTrack ==
    [Name |-> NoAttr, Artist |-> NoAttr, Genre |-> NoAttr,
     Comments |-> NoAttr, Colour |-> NoAttr, Grouping |-> NoAttr,
     Rating |-> NoAttr]

TrackPool ==
    { [BlankTrack EXCEPT !.Name = Attr(<<"n1">>), !.Artist = Attr(<<"a1">>),
                         !.Genre = Attr(<<>>)],
      [BlankTrack EXCEPT !.Name = Attr(<<"n2">>), !.Artist = Attr(<<"a1">>),
                         !.Genre = Attr(<<"Disco">>),
                         !.Comments = Attr(<<"mine", " ", "/", "*", " ", "old",
                                            " ", "*", "/">>),
                         !.Colour = Attr(ManualOverride),
                         !.Grouping = Attr(<<"Red">>),
                         !.Rating = Attr(<<"102">>)],
      [BlankTrack EXCEPT !.Name = Attr(<<"n1">>),
                         !.Colour = Attr(<<"0x00FF00">>),
                         !.Grouping = Attr(<<"Green">>)],
      [BlankTrack EXCEPT !.Artist = Attr(<<"a1">>)] }

Collections ==
    UNION {[1..n -> TrackPool] : n \in 0..MaxTracks}

\* the documents a job is started on: with a COLLECTION, without one,
\* and one ET.parse rejects
Documents == {"collection", "no_collection", "not_xml"}

UserConfigs ==
    { [level |-> "Essential", sub_genre |-> JInt(1), energy_vibe |-> JInt(1),
       situation_environment |-> JInt(1), components |-> JInt(1),
       time_period |-> JInt(1)],
      [level |-> "Clear", sub_genre |-> JAbsent, energy_vibe |-> JAbsent,
       situation_environment |-> JAbsent, components |-> JAbsent,
       time_period |-> JAbsent] }

\* the configurations of every level: those above and level None
LevelConfigs ==
    UserConfigs \cup
    { [level |-> "None", sub_genre |-> JInt(0), energy_vibe |-> JInt(0),
       situation_environment |-> JInt(0), components |-> JInt(0),
       time_period |-> JInt(0)] }

Take(s, n) == SubSeq(s, 1, Min(n, Len(s)))

\* the objects the service answers with
Responses ==
    { [EmptyDict EXCEPT
         !.primary_genre = JList(<<"House">>),
         !.sub_genre = JList(Take(<<"Deep House", "Tech House", "Acid", "Dub">>,
                                  MaxLen)),
         !.energy_level = JInt(8),
         !.components = JList(Take(<<"vocal", "Piano", "Keys", "Wind">>, MaxLen)),
         !.energy_vibe = JList(<<"Dark">>),
         !.situation_environment = JList(<<"Peak Hour", "">>),
         !.time_period = JList(<<"1990s">>)],
      [EmptyDict EXCEPT
         !.primary_genre = JList(<<"Techno", "House">>),
         !.energy_level = JInt(11),
         !.extra = JStr("note")],
      [EmptyDict EXCEPT !.primary_genre = JList(<<>>),
                        !.energy_level = JInt(3)],
      [EmptyDict EXCEPT !.primary_genre = JStr("Rock"),
                        !.time_period = JList(<<"#1990">>)] }

-----------------------------------------------------------------------------
(* State *)

\* the Entries attribute as the input document declares it, whatever it is
Declared == 0 - 1

NoJob == [status |-> "none", track_count |-> 0, output |-> FALSE]

IdleRun ==
    [pc |-> "idle", no |-> 0, config |-> MASTER_BLUEPRINT_CONFIG,
     api_key |-> FALSE, doc |-> "collection", index |-> 0,
     blueprint |-> PyNone, processed_count |-> 0, cause |-> "none",
     db_fault |-> FALSE, total_tracks |-> 0, entries |-> Declared]

\* history of the track in hand
NoObs ==
    [index |-> 0, stored |-> FALSE, read_ok |-> TRUE, hit |-> FALSE,
     calls |-> 0, saved |-> "none", write_ok |-> TRUE]

NoFn == [op |-> "none", blueprint |-> EmptyDict, config |-> MASTER_BLUEPRINT_CONFIG]

PipelineIdle ==
    /\ store = EmptyBag
    /\ job = NoJob
    /\ \E api_key \in BOOLEAN : run = [IdleRun EXCEPT !.api_key = api_key]
    /\ tracks = <<>>
    /\ call = NoCall
    /\ obs = NoObs

Init ==
    /\ PipelineIdle
    /\ fin = NoFn
    /\ fout = <<>>

-----------------------------------------------------------------------------
(* process_library_task *)

\* upload_library: log_job_start and the dispatch of the task, for a
\* configuration of configs and while fewer than runs jobs were started
StartRunWith(configs, runs) ==
    /\ run.pc \in {"idle", "done"}
    /\ run.no < runs
    /\ \E doc \in Documents, coll \in Collections, config \in configs :
          /\ doc # "collection" => coll = <<>>
          /\ run' = [IdleRun EXCEPT !.pc = "parse", !.no = run.no + 1,
                                    !.config = config, !.api_key = run.api_key,
                                    !.doc = doc]
          /\ tracks' = coll
    /\ job' = [NoJob EXCEPT !.status = "In Progress"]
    /\ call' = NoCall
    /\ obs' = NoObs
    /\ UNCHANGED <<store, fin, fout>>

StartRun == StartRunWith(UserConfigs, MaxRuns)

\* a loop that passes over a track
AfterTrackSkip(r) ==
    IF r.index >= Len(tracks)
    THEN [r EXCEPT !.pc = "finish"]
    ELSE [r EXCEPT !.pc = "track", !.index = Min(@ + 2, Len(tracks))]

\* where the loop goes after the track at index
AfterTrack(r) ==
    IF r.index >= Len(tracks)
    THEN [r EXCEPT !.pc = "finish"]
    ELSE [r EXCEPT !.pc = "track", !.index = @ + 1]

\* a loop that stops at the first storage error
AfterSaveAbort(r, failed) ==
    IF failed THEN [r EXCEPT !.pc = "abort", !.cause = "storage"]
    ELSE AfterTrack(r)

\* after insert_track_data: it catches psycopg.Error itself (lines 319-321),
\* so the loop goes on whether the write failed or not
AfterSave(r, failed) ==
    AfterTrack([r EXCEPT !.db_fault = @ \/ failed])

\* lines 846-856
Parse ==
    /\ run.pc = "parse"
    /\ run' = IF run.doc # "collection"
              THEN [run EXCEPT !.pc = "abort", !.cause = "structural"]
              ELSE AfterTrack([run EXCEPT !.total_tracks = Len(tracks)])
    /\ UNCHANGED <<store, job, tracks, call, obs, fin, fout>>

\* lines 863-874: config level Clear
ClearTrack ==
    /\ run.pc = "track"
    /\ run.config.level = "Clear"
    /\ LET track == clear_ai_tags(tracks[run.index])
       IN /\ tracks' = [tracks EXCEPT ![run.index] = track]
          /\ \E db_ok \in BOOLEAN :
             LET failed == InsertFails(store, track.Name, track.Artist, db_ok)
             IN /\ store' \in insert_track_data(store, track.Name,
                                                track.Artist, PyNone, db_ok)
                /\ obs' = [NoObs EXCEPT !.index = run.index, !.saved = "null",
                                        !.write_ok = ~failed]
                /\ run' = AfterSave([run EXCEPT !.processed_count = @ + 1],
                                    failed)
    /\ UNCHANGED <<job, call, fin, fout>>

\* what follows a call_llm_for_tags that has ended or goes on
AfterCall(r, c) ==
    CASE c.status = "returned" ->
             [r EXCEPT !.pc = "tags", !.blueprint = PyDict(c.result)]
      [] c.status = "raised" -> [r EXCEPT !.pc = "abort", !.cause = "classifier"]
      [] OTHER -> [r EXCEPT !.pc = "classify"]

\* lines 876-896: the cache check, and on a miss the call of the classifier
\* up to its first request
CacheCheck ==
    /\ run.pc = "track"
    /\ run.config.level # "Clear"
    /\ LET track == tracks[run.index]
       IN \E db_ok \in BOOLEAN :
          \E full_blueprint_tags \in
                get_track_blueprint(store, track.Name, track.Artist, db_ok) :
             LET seen == [NoObs EXCEPT
                            !.index = run.index,
                            !.stored = \E r \in MatchingRows(store, track.Name,
                                                             track.Artist) :
                                          ~r.tags.null,
                            !.read_ok = db_ok,
                            !.hit = DictTruthy(full_blueprint_tags)]
             IN IF DictTruthy(full_blueprint_tags)
                THEN /\ run' = [run EXCEPT !.pc = "tags",
                                           !.blueprint = full_blueprint_tags]
                     /\ call' = NoCall
                     /\ obs' = seen
                ELSE LET c == BeginCall(run.api_key, track.Artist.has,
                                        track.Name.has, "full")
                     IN /\ call' = c
                        /\ run' = AfterCall([run EXCEPT
                                               !.blueprint = PyNone,
                                               !.db_fault = @ \/ ~db_ok], c)
                        /\ obs' = [seen EXCEPT !.calls = @ + 1]
    /\ UNCHANGED <<store, job, tracks, fin, fout>>

\* lines 476-541: one request of the call in progress
Attempt ==
    /\ run.pc = "classify"
    /\ call.status = "running"
    /\ \E kind \in ServiceKinds, response \in Responses :
       \E handler \in AttemptHandlers(kind) :
          /\ kind # "object" => response = CHOOSE r \in Responses : TRUE
          /\ call' = AttemptStep(call, kind, handler, response)
    /\ run' = AfterCall(run, call')
    /\ UNCHANGED <<store, job, tracks, obs, fin, fout>>

\* a check that lets every blueprint with a key through
BlueprintInvalidLax(full_blueprint_tags) == ~DictTruthy(full_blueprint_tags)

\* lines 898-900
BlueprintInvalid(full_blueprint_tags) ==
    \/ ~DictTruthy(full_blueprint_tags)
    \/ ~Truthy(full_blueprint_tags.d.primary_genre)

\* a save of what was rendered
SavedRendered(full_blueprint_tags, tags_for_xml) == PyDict(tags_for_xml)

\* lines 1016-1023: the last argument of insert_track_data
SavedBlueprint(full_blueprint_tags, tags_for_xml) == full_blueprint_tags

\* lines 898-1023: the blueprint is validated, rendered into the TRACK and
\* saved
ProcessTags ==
    /\ run.pc = "tags"
    /\ LET track == tracks[run.index]
           full_blueprint_tags == run.blueprint
       IN IF BlueprintInvalid(full_blueprint_tags)
          THEN /\ \E db_ok \in BOOLEAN :
                  LET failed == InsertFails(store, track.Name, track.Artist,
                                            db_ok)
                  IN /\ store' \in insert_track_data(store, track.Name,
                                                     track.Artist, PyNone, db_ok)
                     /\ obs' = [obs EXCEPT !.saved = "null",
                                           !.write_ok = ~failed]
                     /\ run' = AfterSave(run, failed)
               /\ UNCHANGED tracks
          ELSE IF ApplyConfigRaises(full_blueprint_tags.d, run.config)
          THEN /\ run' = [run EXCEPT !.pc = "abort", !.cause = "render"]
               /\ UNCHANGED <<store, tracks, obs>>
          ELSE LET tags_for_xml ==
                       apply_user_config_to_tags(full_blueprint_tags.d,
                                                 run.config)
               IN IF RenderRaises(tags_for_xml)
                  THEN /\ run' = [run EXCEPT !.pc = "abort", !.cause = "render"]
                       /\ tracks' = [tracks EXCEPT ![run.index] =
                                         clear_ai_tags(track)]
                       /\ UNCHANGED <<store, obs>>
                  ELSE /\ tracks' = [tracks EXCEPT ![run.index] =
                                         RenderTrack(track, tags_for_xml)]
                       /\ \E db_ok \in BOOLEAN :
                          LET failed == InsertFails(store, track.Name,
                                                    track.Artist, db_ok)
                          IN /\ store' \in insert_track_data(
                                    store, track.Name, track.Artist,
                                    SavedBlueprint(full_blueprint_tags,
                                                   tags_for_xml), db_ok)
                             /\ obs' = [obs EXCEPT !.saved = "blueprint",
                                                   !.write_ok = ~failed]
                             /\ run' = AfterSave(
                                    [run EXCEPT !.processed_count = @ + 1],
                                    failed)
    /\ call' = NoCall
    /\ UNCHANGED <<job, fin, fout>>

\* log_job_end: the UPDATE, lost when the database fails
log_job_end(j, status, track_count, db_ok) ==
    IF db_ok THEN [j EXCEPT !.status = status, !.track_count = track_count]
    ELSE j

\* an Entries attribute left as the input declared it
EntriesKept(collection) == Declared

\* line 1026: str(len(collection.findall('TRACK')))
EntriesSet(collection) == Len(collection)

\* lines 1025-1036: Entries, tree.write and the Completed log
Finish ==
    /\ run.pc = "finish"
    /\ \E write_ok \in BOOLEAN, db_ok \in BOOLEAN :
          IF write_ok
          THEN /\ job' = log_job_end([job EXCEPT !.output = TRUE], "Completed",
                                     run.total_tracks, db_ok)
               /\ run' = [run EXCEPT !.pc = "done",
                                     !.entries = EntriesSet(tracks)]
          ELSE /\ db_ok
               /\ run' = [run EXCEPT !.pc = "abort", !.cause = "write",
                                     !.entries = EntriesSet(tracks)]
               /\ UNCHANGED job
    /\ UNCHANGED <<store, tracks, call, obs, fin, fout>>

\* lines 1038-1041: the except clause of the task
Abort ==
    /\ run.pc = "abort"
    /\ \E db_ok \in BOOLEAN : job' = log_job_end(job, "Failed", 0, db_ok)
    /\ run' = [run EXCEPT !.pc = "done"]
    /\ UNCHANGED <<store, tracks, call, obs, fin, fout>>

Next ==
    \/ StartRun
    \/ Parse
    \/ ClearTrack
    \/ CacheCheck
    \/ Attempt
    \/ ProcessTags
    \/ Finish
    \/ Abort

Spec == Init /\ [][Next]_vars

-----------------------------------------------------------------------------
(* One run of any level, level None included, on the empty store *)
StartAnyLevel == StartRunWith(LevelConfigs, 1)

NextModes ==
    \/ StartAnyLevel
    \/ Parse
    \/ ClearTrack
    \/ CacheCheck
    \/ Attempt
    \/ ProcessTags
    \/ Finish
    \/ Abort

SpecModes == Init /\ [][NextModes]_vars

-----------------------------------------------------------------------------
(* The end-to-end scenario: a tagging run on three tracks, the first with  *)
(* Genre "House, Tech House", the second with an empty Genre, the third    *)
(* with a blueprint in the store.                                          *)
ScenarioTracks ==
    << [BlankTrack EXCEPT !.Name = Attr(<<"n1">>), !.Artist = Attr(<<"a1">>),
                          !.Genre = Attr(<<"House", ",", " ", "Tech", " ",
                                           "House">>)],
       [BlankTrack EXCEPT !.Name = Attr(<<"n2">>), !.Artist = Attr(<<"a1">>),
                          !.Genre = Attr(<<>>)],
       [BlankTrack EXCEPT !.Name = Attr(<<"n3">>), !.Artist = Attr(<<"a1">>),
                          !.Genre = Attr(<<"Disco">>)] >>

\* detailConfig {sub_genre: 1, ...}
ScenarioConfig == CHOOSE config \in UserConfigs : config.level = "Essential"

\* the blueprints the third track can have in the store: those an earlier
\* run saved, which passed the check of lines 898-900
ScenarioBlueprints ==
    {b \in {NormalizeResponse(r, "full") : r \in Responses} :
        ~BlueprintInvalid(PyDict(b))}

InitScenario ==
    /\ \E blueprint \in ScenarioBlueprints :
          store = OneRow([name |-> ScenarioTracks[3].Name,
                          artist |-> ScenarioTracks[3].Artist,
                          tags |-> json_dumps(blueprint)])
    /\ job = [NoJob EXCEPT !.status = "In Progress"]
    /\ \E api_key \in BOOLEAN :
          run = [IdleRun EXCEPT !.pc = "parse", !.no = 1,
                                !.config = ScenarioConfig,
                                !.api_key = api_key]
    /\ tracks = ScenarioTracks
    /\ call = NoCall
    /\ obs = NoObs
    /\ fin = [NoFn EXCEPT !.op = "scenario"]
    /\ fout = <<>>

NextScenario ==
    \/ Parse
    \/ CacheCheck
    \/ Attempt
    \/ ProcessTags
    \/ Finish
    \/ Abort

SpecScenario == InitScenario /\ [][NextScenario]_vars

-----------------------------------------------------------------------------
(* get_genre_map_from_ai: raw genres to main buckets, ten genres a request *)
MAIN_GENRE_BUCKETS ==
    {"Electronic", "Hip Hop", "Rock", "Jazz-Funk-Soul", "World", "Pop",
     "Miscellaneous"}

batch_size == 10
genre_max_retries == 5
genre_initial_delay == 3

\* the raw genres of the model
GenrePool ==
    <<"Deep House",
       "Acid Techno",
       "R&B",
       "Unknown Xyz",
       "Drum & Bass",
       "Genre 6",
       "Genre 7",
       "Genre 8",
       "Genre 9",
       "Genre 10",
       "Genre 11",
       "Genre 12",
       "Genre 13">>

\* re.sub(r'[^\w\s\-/]', '', g): the name the prompt shows for a genre
PromptName(g) ==
    CASE g = "R&B" -> "RB"
      [] g = "Drum & Bass" -> "Drum  Bass"
      [] OTHER -> g

\* str.lower() and str.upper() of the names of the model
Lower(x) ==
    CASE x \in {"Deep House", "DEEP HOUSE"} -> "deep house"
      [] x \in {"Acid Techno", "ACID TECHNO"} -> "acid techno"
      [] x \in {"R&B", "R&B"} -> "r&b"
      [] x \in {"RB", "RB"} -> "rb"
      [] x \in {"Unknown Xyz", "UNKNOWN XYZ"} -> "unknown xyz"
      [] x \in {"Drum & Bass", "DRUM & BASS"} -> "drum & bass"
      [] x \in {"Drum  Bass", "DRUM  BASS"} -> "drum  bass"
      [] x \in {"Genre 6", "GENRE 6"} -> "genre 6"
      [] x \in {"Genre 7", "GENRE 7"} -> "genre 7"
      [] x \in {"Genre 8", "GENRE 8"} -> "genre 8"
      [] x \in {"Genre 9", "GENRE 9"} -> "genre 9"
      [] x \in {"Genre 10", "GENRE 10"} -> "genre 10"
      [] x \in {"Genre 11", "GENRE 11"} -> "genre 11"
      [] x \in {"Genre 12", "GENRE 12"} -> "genre 12"
      [] x \in {"Genre 13", "GENRE 13"} -> "genre 13"
      [] OTHER -> x

Upper(x) ==
    CASE x = "Deep House" -> "DEEP HOUSE"
      [] x = "Acid Techno" -> "ACID TECHNO"
      [] x = "R&B" -> "R&B"
      [] x = "RB" -> "RB"
      [] x = "Unknown Xyz" -> "UNKNOWN XYZ"
      [] x = "Drum & Bass" -> "DRUM & BASS"
      [] x = "Drum  Bass" -> "DRUM  BASS"
      [] x = "Genre 6" -> "GENRE 6"
      [] x = "Genre 7" -> "GENRE 7"
      [] x = "Genre 8" -> "GENRE 8"
      [] x = "Genre 9" -> "GENRE 9"
      [] x = "Genre 10" -> "GENRE 10"
      [] x = "Genre 11" -> "GENRE 11"
      [] x = "Genre 12" -> "GENRE 12"
      [] x = "Genre 13" -> "GENRE 13"
      [] OTHER -> x

Range(f) == {f[i] : i \in DOMAIN f}

\* the objects the service answers a batch with: every genre under the name
\* the prompt showed, the same in upper case, the first genre only, nothing,
\* or every genre under a department that is none of the main ones
\* first_two: the first two genres of the batch; verbatim: every genre under
\* its own name, "&" included
AnswerPolicies ==
    {"echo", "echo_upper", "first_only", "first_two", "verbatim", "empty",
     "odd_bucket"}

Answer(policy, batch) ==
    CASE policy = "echo" ->
             [k \in {PromptName(g) : g \in Range(batch)} |-> "Electronic"]
      [] policy = "echo_upper" ->
             [k \in {Upper(PromptName(g)) : g \in Range(batch)} |-> "Rock"]
      [] policy = "first_only" ->
             [k \in {PromptName(batch[1])} |-> "Electronic"]
      [] policy = "first_two" ->
             [k \in {PromptName(batch[n]) : n \in 1..Min(2, Len(batch))}
                |-> "Electronic"]
      [] policy = "verbatim" -> [k \in Range(batch) |-> "Pop"]
      [] policy = "odd_bucket" ->
             [k \in {PromptName(g) : g \in Range(batch)} |-> "Dance"]
      [] OTHER -> [k \in {} |-> "Miscellaneous"]

\* the genres of the batch that ai_map_lower has a key for (lines 625-630)
InResponse(genre_map_batch, batch) ==
    {g \in Range(batch) :
        Lower(g) \in {Lower(k) : k \in DOMAIN genre_map_batch}}

\* lines 625-631
validated_batch(genre_map_batch, batch) ==
    LET lowered == {Lower(k) : k \in DOMAIN genre_map_batch}
        ai_map_lower ==
            [l \in lowered |->
                genre_map_batch[CHOOSE k \in DOMAIN genre_map_batch :
                                    Lower(k) = l]]
    IN [g \in Range(batch) |->
           IF Lower(g) \in lowered THEN ai_map_lower[Lower(g)]
           ELSE "Miscellaneous"]

NoGenreMap ==
    [status |-> "idle", genre_list |-> <<>>, i |-> 0, attempt |-> 0,
     requests |-> 0, sleeps |-> 0, delay |-> 0,
     final_genre_map |-> [g \in {} |-> "Miscellaneous"], last |-> "none",
     answered |-> {},
     genre_map |-> [g \in {} |-> "Miscellaneous"],
     main_genre_buckets |-> [b \in {} |-> {}],
     created_files |-> {}]

\* genre_list[i:i + batch_size]
BatchAt(genre_list, i) ==
    SubSeq(genre_list, i + 1, Min(i + batch_size, Len(genre_list)))

\* lines 562-572: before the first batch
BeginGenreMap(api_key, genre_list) ==
    IF ~api_key
    THEN [NoGenreMap EXCEPT
            !.status = "returned", !.genre_list = genre_list,
            !.final_genre_map = [g \in Range(genre_list) |-> "Miscellaneous"]]
    ELSE IF genre_list = <<>>
    THEN [NoGenreMap EXCEPT !.status = "returned"]
    ELSE [NoGenreMap EXCEPT !.status = "running", !.genre_list = genre_list]

\* the step of the outer loop without the loop of lines 645-647
EndBatchNoFill(m) ==
    LET next_i == m.i + batch_size
    IN [m EXCEPT !.i = next_i,
                 !.attempt = 0,
                 !.status = IF next_i >= Len(m.genre_list) THEN "returned"
                            ELSE "running"]

\* lines 645-647 and the step of the outer loop: the genres of the batch the
\* map lacks become Miscellaneous, then the next batch or the return
EndBatch(m) ==
    LET batch == BatchAt(m.genre_list, m.i)
        filled == m.final_genre_map
                  @@ [g \in Range(batch) |-> "Miscellaneous"]
        next_i == m.i + batch_size
    IN [m EXCEPT !.final_genre_map = filled,
                 !.i = next_i,
                 !.attempt = 0,
                 !.status = IF next_i >= Len(m.genre_list) THEN "returned"
                            ELSE "running"]

\* lines 607-643: one pass of the retry loop of the batch at i
BatchAttemptStep(m, kind, handler, policy) ==
    LET batch == BatchAt(m.genre_list, m.i)
        sent == [m EXCEPT !.requests = IF m.attempt = 0 THEN 1 ELSE @ + 1,
                          !.last = kind]
        after == [sent EXCEPT !.attempt = @ + 1]
        exhausted(x) ==
            IF x.attempt >= genre_max_retries THEN EndBatch(x) ELSE x
    IN CASE handler = "retry_sleep" ->
              exhausted([after EXCEPT
                           !.sleeps = @ + 1,
                           !.delay = genre_initial_delay * (2 ^ m.attempt)])
         [] handler = "next" -> exhausted(after)
         [] handler = "fallback" -> EndBatch(sent)
         [] handler = "raise" -> [sent EXCEPT !.status = "raised"]
         [] handler = "return" ->
              EndBatch([sent EXCEPT
                          !.final_genre_map =
                              validated_batch(Answer(policy, batch), batch)
                              @@ @,
                          !.answered =
                              @ \cup InResponse(Answer(policy, batch), batch)])

-----------------------------------------------------------------------------
(* The two client functions on their own: every input, every course of    *)
(* the service.                                                            *)
MaxGenres == 11     \* raw genres of one collection

ClientInputs ==
    { [op |-> "tags", api_key |-> k, artist_present |-> a,
       title_present |-> t, mode |-> m, genre_list |-> <<>>] :
        k \in BOOLEAN, a \in BOOLEAN, t \in BOOLEAN,
        m \in {"full", "genre_only"} }
    \cup
    { [op |-> "genre_map", api_key |-> k, artist_present |-> TRUE,
       title_present |-> TRUE, mode |-> "full",
       genre_list |-> Take(GenrePool, n)] :
        k \in BOOLEAN, n \in 0..MaxGenres }

InitClient ==
    /\ PipelineIdle
    /\ fin \in ClientInputs
    /\ fout = NoGenreMap

CallTags ==
    /\ fin.op = "tags"
    /\ call.status = "idle"
    /\ call' = BeginCall(fin.api_key, fin.artist_present, fin.title_present,
                         fin.mode)
    /\ UNCHANGED <<store, job, run, tracks, obs, fin, fout>>

TagsAttempt ==
    /\ fin.op = "tags"
    /\ call.status = "running"
    /\ \E kind \in ServiceKinds, response \in Responses :
       \E handler \in AttemptHandlers(kind) :
          /\ kind # "object" => response = CHOOSE r \in Responses : TRUE
          /\ call' = AttemptStep(call, kind, handler, response)
    /\ UNCHANGED <<store, job, run, tracks, obs, fin, fout>>

CallGenreMap ==
    /\ fin.op = "genre_map"
    /\ fout.status = "idle"
    /\ fout' = BeginGenreMap(fin.api_key, fin.genre_list)
    /\ UNCHANGED <<store, job, run, tracks, call, obs, fin>>

BatchAttempt ==
    /\ fin.op = "genre_map"
    /\ fout.status = "running"
    /\ \E kind \in ServiceKinds, policy \in AnswerPolicies :
       \E handler \in AttemptHandlers(kind) :
          /\ kind # "object" => policy = "empty"
          /\ fout' = BatchAttemptStep(fout, kind, handler, policy)
    /\ UNCHANGED <<store, job, run, tracks, call, obs, fin>>

NextClient == CallTags \/ TagsAttempt \/ CallGenreMap \/ BatchAttempt

SpecClient == InitClient /\ [][NextClient]_vars

-----------------------------------------------------------------------------
(* apply_user_config_to_tags on its own: blueprints and detail             *)
(* configurations drawn from bounded sets, rendered and rendered again.    *)
TagSeq == <<"Deep House", "Tech House", "Acid", "Dub", "Minimal">>

\* what one category of a blueprint holds: nothing, a scalar, a list
ListOptions ==
    {JAbsent, JStr("Dub")} \cup {JList(Take(TagSeq, n)) : n \in 0..MaxLen}

CapOptions == {JInt(n) : n \in 0..MaxCap}

\* one category (focus) takes every option and cap, the others a common one
RenderInputs ==
    { [op |-> "given",
       blueprint |->
           [k \in BlueprintKeys |->
               CASE k = focus -> opt
                 [] k \in list_keys_to_trim \ {focus} -> others
                 [] k = "primary_genre" -> pg
                 [] k = "energy_level" -> energy
                 [] OTHER -> JAbsent],
       config |->
           [level |-> "Detailed",
            sub_genre |-> IF focus = "sub_genre" THEN cap ELSE other_cap,
            components |-> IF focus = "components" THEN cap ELSE other_cap,
            energy_vibe |-> IF focus = "energy_vibe" THEN cap ELSE other_cap,
            situation_environment |->
                IF focus = "situation_environment" THEN cap ELSE other_cap,
            time_period |-> IF focus = "time_period" THEN cap ELSE other_cap]] :
        focus \in list_keys_to_trim, opt \in ListOptions, cap \in CapOptions,
        others \in {JAbsent, JList(Take(TagSeq, MaxLen))},
        other_cap \in {JInt(1), JInt(MaxCap)},
        pg \in {JList(<<"House">>), JList(<<"House", "Techno">>)},
        energy \in {JAbsent, JNull, JInt(7)} }

InitRender ==
    /\ PipelineIdle
    /\ fin \in RenderInputs
    /\ fout = <<>>

\* tags_for_xml = apply_user_config_to_tags(full_blueprint_tags, config)
Render ==
    /\ fin.op = "given"
    /\ fin' = [fin EXCEPT !.op = "rendered"]
    /\ fout' = <<apply_user_config_to_tags(fin.blueprint, fin.config)>>
    /\ UNCHANGED <<store, job, run, tracks, call, obs>>

\* the rendered tags rendered once more with the same configuration
RenderAgain ==
    /\ fin.op = "rendered"
    /\ fin' = [fin EXCEPT !.op = "rerendered"]
    /\ fout' = Append(fout, apply_user_config_to_tags(fout[1], fin.config))
    /\ UNCHANGED <<store, job, run, tracks, call, obs>>

NextRender == Render \/ RenderAgain

SpecRender == InitRender /\ [][NextRender]_vars

-----------------------------------------------------------------------------
(* Claims *)

\* s is the first n entries of lst, in their order
IsFirstEntries(s, lst, n) ==
    /\ Len(s) = Min(n, Len(lst))
    /\ \A i \in 1..Len(s) : s[i] = lst[i]

\* C9: for every blueprint B and detail configuration C, the rendered tags
\* hold for each trimmable category exactly the first C[category] entries of
\* B's list in their order (so at most the cap), and primary_genre and
\* energy_level are those of B.
C9_RenderTruncates ==
    fin.op # "given" =>
        /\ \A key \in list_keys_to_trim :
              IF fin.blueprint[key].t = "list"
              THEN /\ fout[1][key].t = "list"
                   /\ IsFirstEntries(fout[1][key].s, fin.blueprint[key].s,
                                     fin.config[key].n)
                   /\ Len(fout[1][key].s) <= fin.config[key].n
              ELSE fout[1][key] = fin.blueprint[key]
        /\ fout[1].primary_genre = fin.blueprint.primary_genre
        /\ fout[1].energy_level = fin.blueprint.energy_level

\* a render that cut a list of the blueprint short
C9_Witness ==
    /\ fin.op = "rendered"
    /\ \E key \in list_keys_to_trim :
          /\ fin.blueprint[key].t = "list"
          /\ fin.config[key].n >= 1
          /\ Len(fin.blueprint[key].s) > fin.config[key].n
          /\ Len(fout[1][key].s) = fin.config[key].n

\* C10: rendering is idempotent: the rendered tags rendered again with the
\* same configuration are the rendered tags.
C10_RenderIdempotent ==
    fin.op = "rerendered" => fout[2] = fout[1]

\* a second render of tags the first render had cut short
C10_Witness ==
    /\ fin.op = "rerendered"
    /\ fout[1] # fin.blueprint
    /\ fout[2] = fout[1]

-----------------------------------------------------------------------------
(* clear_ai_tags and the rendering of one TRACK on their own: tracks and   *)
(* blueprints drawn from bounded sets.                                     *)
MaxComment == 8     \* longest Comments made of "/" and "*" alone

RECURSIVE SeqsUpTo(_, _)
SeqsUpTo(S, n) ==
    IF n = 0 THEN {<<>>}
    ELSE LET shorter == SeqsUpTo(S, n - 1)
         IN shorter \cup {Append(q, x) : q \in shorter, x \in S}

\* Comments: every string of "/" and "*", some with text, blanks, a newline
CommentTexts ==
    SeqsUpTo({"/", "*"}, MaxComment)
    \cup { <<"mine">>,
           <<"mine", " ", "/", "*", " ", "old", " ", "*", "/">>,
           <<" ", "a", " ", "/", "*", "x", "*", "/", " ", "b", " ">>,
           <<"/", "*", "a", "*", "/", "b", "/", "*", "c", "*", "/">>,
           <<"/", "*", "a", "\n", "b", "*", "/">> }

\* Colour and Grouping of a TRACK: none, pinned by the user, set by a run
ColourOptions ==
    { <<NoAttr, NoAttr>>,
      <<Attr(ManualOverride), Attr(<<"Red">>)>>,
      <<Attr(ManualOverride), NoAttr>>,
      <<Attr(<<"0x00FF00">>), Attr(<<"Green">>)>> }

\* the energy_level a blueprint can carry
EnergyOptions ==
    {JAbsent, JNull, JFloat(7), JStr("high")} \cup {JInt(n) : n \in 0..11}

TrackInputs ==
    { [op |-> "clear",
       track |-> [BlankTrack EXCEPT
                    !.Name = Attr(<<"n1">>), !.Artist = Attr(<<"a1">>),
                    !.Genre = Attr(<<"Disco">>),
                    !.Comments = comments, !.Colour = colour[1],
                    !.Grouping = colour[2], !.Rating = rating],
       tags |-> EmptyDict] :
        comments \in {NoAttr} \cup {Attr(c) : c \in CommentTexts},
        colour \in ColourOptions,
        rating \in {NoAttr, Attr(<<"102">>)} }
    \cup
    { [op |-> "render",
       track |-> [BlankTrack EXCEPT
                    !.Name = Attr(<<"n1">>), !.Artist = Attr(<<"a1">>),
                    !.Genre = genre,
                    !.Comments = comments, !.Colour = colour[1],
                    !.Grouping = colour[2], !.Rating = Attr(<<"102">>)],
       tags |-> [EmptyDict EXCEPT
                    !.primary_genre = pg,
                    !.sub_genre = JList(<<"Deep House">>),
                    !.energy_vibe = JList(<<"Dark">>),
                    !.energy_level = energy]] :
        genre \in {NoAttr, Attr(<<"Disco">>)},
        comments \in {NoAttr,
                      Attr(<<"mine", " ", "/", "*", " ", "old", " ", "*", "/">>)},
        colour \in ColourOptions,
        pg \in {JList(<<"House">>), JList(<<"">>)},
        energy \in EnergyOptions }

InitTrack ==
    /\ PipelineIdle
    /\ fin \in TrackInputs
    /\ fout = <<>>

\* clear_ai_tags(track)
ClearOnce ==
    /\ fin.op = "clear"
    /\ fout = <<>>
    /\ fout' = <<clear_ai_tags(fin.track)>>
    /\ UNCHANGED <<store, job, run, tracks, call, obs, fin>>

\* clear_ai_tags on the TRACK it has cleared
ClearAgain ==
    /\ fin.op = "clear"
    /\ Len(fout) = 1
    /\ fout' = Append(fout, clear_ai_tags(fout[1]))
    /\ UNCHANGED <<store, job, run, tracks, call, obs, fin>>

\* lines 915-994 on one TRACK
RenderOnce ==
    /\ fin.op = "render"
    /\ fout = <<>>
    /\ fout' = <<RenderTrack(fin.track, fin.tags)>>
    /\ UNCHANGED <<store, job, run, tracks, call, obs, fin>>

NextTrack == ClearOnce \/ ClearAgain \/ RenderOnce

SpecTrack == InitTrack /\ [][NextTrack]_vars

-----------------------------------------------------------------------------
(* Successive tagging runs over one TRACK: each run renders the TRACK the  *)
(* run before it has written (lines 915-994).                              *)
MaxRenders == 3

\* Comments as the user wrote them, before any run
UserComments ==
    { <<>>, <<"mine">>, <<"mine", "\n", "more">>,
      <<"see", " ", "/", "*", " ", "note">>,
      <<"a", " ", "*", "/", " ", "b">> }

\* what a run can have to render: with energy and tags, with genres that
\* are all empty strings, the fallback
RerunTags ==
    { [EmptyDict EXCEPT !.primary_genre = JList(<<"House">>),
                        !.sub_genre = JList(<<"", "Deep House">>),
                        !.energy_vibe = JList(<<"Dark">>),
                        !.energy_level = JInt(8)],
      [EmptyDict EXCEPT !.primary_genre = JList(<<"">>),
                        !.sub_genre = JList(<<"">>),
                        !.energy_level = JInt(6)],
      [EmptyDict EXCEPT !.primary_genre = JList(<<"Techno">>),
                        !.energy_level = JInt(3)],
      Fallback("full") }

InitRerun ==
    /\ store = EmptyBag
    /\ job = NoJob
    /\ run = IdleRun
    /\ tracks = <<>>
    /\ call = NoCall
    /\ obs = NoObs
    /\ \E comments \in {NoAttr} \cup {Attr(c) : c \in UserComments},
          genre \in {NoAttr, Attr(<<>>), Attr(<<"Disco">>)} :
          fin = [op |-> "rerun",
                 track |-> [BlankTrack EXCEPT
                              !.Name = Attr(<<"n1">>), !.Artist = Attr(<<"a1">>),
                              !.Genre = genre, !.Comments = comments]]
    /\ fout = <<>>

\* lines 915-994 in the next run, on the TRACK as the last run left it
RenderNext ==
    /\ fin.op = "rerun"
    /\ Len(fout) < MaxRenders
    /\ \E tags_for_xml \in RerunTags :
          LET track == IF fout = <<>> THEN fin.track ELSE fout[Len(fout)]
          IN /\ fout' = Append(fout, RenderTrack(track, tags_for_xml))
             /\ run' = [run EXCEPT !.blueprint = PyDict(tags_for_xml)]
    /\ UNCHANGED <<store, job, tracks, call, obs, fin>>

NextRerun == RenderNext

SpecRerun == InitRerun /\ [][NextRerun]_vars

-----------------------------------------------------------------------------
(* split_library_task and split_xml_by_genre: the document, the raw genres *)
(* Stage 1 finds in it (the tracks of a genre are stood for by the genre), *)
(* Stage 2, the files and the job log.                                     *)
SplitInputs ==
    { [op |-> "split", api_key |-> k, artist_present |-> TRUE,
       title_present |-> TRUE, mode |-> "full", doc |-> "collection",
       genre_list |-> Take(GenrePool, n)] :
        k \in BOOLEAN, n \in 0..MaxGenres }
    \cup
    { [op |-> "split", api_key |-> k, artist_present |-> TRUE,
       title_present |-> TRUE, mode |-> "full", doc |-> d,
       genre_list |-> <<>>] :
        k \in BOOLEAN, d \in Documents \ {"collection"} }

\* upload_library has logged the job (lines 1095-1096) and dispatched the
\* task
InitSplit ==
    /\ store = EmptyBag
    /\ job = [NoJob EXCEPT !.status = "In Progress"]
    /\ run = [IdleRun EXCEPT !.pc = "split"]
    /\ tracks = <<>>
    /\ call = NoCall
    /\ obs = NoObs
    /\ fin \in SplitInputs
    /\ fout = [NoGenreMap EXCEPT !.status = "parse"]

\* lines 698-728: the parse and Stage 1.  A document without COLLECTION or
\* one ET.parse rejects raises; a COLLECTION without TRACK returns [].
SplitParse ==
    /\ fin.op = "split"
    /\ fout.status = "parse"
    /\ fout' = [fout EXCEPT !.status =
                   IF fin.doc # "collection" THEN "raised"
                   ELSE IF fin.genre_list = <<>> THEN "no_tracks"
                   ELSE "idle"]
    /\ run' = [run EXCEPT !.doc = fin.doc,
                          !.cause = IF fin.doc # "collection"
                                    THEN "structural" ELSE @]
    /\ UNCHANGED <<store, job, tracks, call, obs, fin>>

\* lines 734-735 without their effect
OverrideNone(genre_map) == genre_map

\* lines 734-735: if "R&B" in genre_map: genre_map["R&B"] = "Hip Hop"
OverrideRnB(genre_map) ==
    [g \in DOMAIN genre_map |->
        IF g = "R&B" THEN "Hip Hop" ELSE genre_map[g]]

\* genre_map.get(genre, "Miscellaneous"), line 741
BucketOf(genre_map, genre) ==
    IF genre \in DOMAIN genre_map THEN genre_map[genre] ELSE "Miscellaneous"

\* lines 739-744: the genres (for their tracks) under each bucket name
GroupByBucket(genre_map, genres) ==
    [b \in {BucketOf(genre_map, g) : g \in genres} |->
        {g \in genres : BucketOf(genre_map, g) = b}]

\* re.sub(r'[ /&]', '_', bucket_name), line 769, on the names of the model
safe_bucket_name(bucket_name) ==
    CASE bucket_name = "Hip Hop" -> "Hip_Hop"
      [] OTHER -> bucket_name

\* line 770
filename(bucket_name) == safe_bucket_name(bucket_name) \o ".xml"

\* lines 731-732: Stage 2 calls the grouper with the raw genres
Stage2 ==
    /\ fin.op = "split"
    /\ fout.status = "idle"
    /\ fout' = BeginGenreMap(fin.api_key, fin.genre_list)
    /\ UNCHANGED <<store, job, run, tracks, call, obs, fin>>

\* one attempt of the batch in hand; an exception the grouper does not catch
\* leaves split_xml_by_genre through lines 787-789
Stage2Attempt ==
    /\ fin.op = "split"
    /\ fout.status = "running"
    /\ \E kind \in ServiceKinds, policy \in AnswerPolicies :
       \E handler \in AttemptHandlers(kind) :
          /\ kind # "object" => policy = "empty"
          /\ fout' = BatchAttemptStep(fout, kind, handler, policy)
    /\ UNCHANGED <<store, job, run, tracks, call, obs, fin>>

\* lines 734-782: the override, the grouping and the files; a file whose
\* write raises IOError is reported and left out of created_files
GroupTracks ==
    /\ fin.op = "split"
    /\ fout.status = "returned"
    /\ LET genre_map == OverrideRnB(fout.final_genre_map)
           main_genre_buckets ==
               GroupByBucket(genre_map, Range(fin.genre_list))
       IN \E failed \in SUBSET DOMAIN main_genre_buckets :
             fout' = [fout EXCEPT
                        !.status = "grouped",
                        !.genre_map = genre_map,
                        !.main_genre_buckets = main_genre_buckets,
                        !.created_files =
                            {filename(b) :
                                b \in DOMAIN main_genre_buckets \ failed}]
    /\ UNCHANGED <<store, job, run, tracks, call, obs, fin>>

\* lines 810-837: the end of split_library_task.  The UPDATE of the job is
\* inside the try, so a psycopg.Error there goes to the except clause, whose
\* own UPDATE is outside any try.
SplitTaskEnd ==
    /\ fin.op = "split"
    /\ run.pc = "split"
    /\ fout.status \in {"grouped", "no_tracks", "raised"}
    /\ \E db_ok \in BOOLEAN, db_ok_except \in BOOLEAN :
          /\ (fout.status = "raised" \/ db_ok) => db_ok_except
          /\ job' = IF fout.status # "raised" /\ db_ok
                    THEN [job EXCEPT
                            !.status = "Completed",
                            !.track_count = Cardinality(fout.created_files),
                            !.output = fout.created_files # {}]
                    ELSE IF fout.status = "raised" /\ db_ok
                    THEN [job EXCEPT !.status = "Failed"]
                    ELSE IF fout.status # "raised" /\ db_ok_except
                    THEN [job EXCEPT !.status = "Failed"]
                    ELSE job
          /\ run' = [run EXCEPT
                       !.pc = "done",
                       !.db_fault = ~db_ok,
                       !.cause = IF fout.status # "raised" /\ ~db_ok
                                 THEN "storage"
                                 ELSE IF fout.status = "raised" /\ @ = "none"
                                 THEN "classifier" ELSE @]
    /\ UNCHANGED <<store, tracks, call, obs, fin, fout>>

NextSplit == SplitParse \/ Stage2 \/ Stage2Attempt \/ GroupTracks \/ SplitTaskEnd

SpecSplit == InitSplit /\ [][NextSplit]_vars

-----------------------------------------------------------------------------
(* Tagging runs that work on the same track at the same time.  Each run is *)
(* its own Celery task with its own connections: the cache check is one    *)
(* transaction, insert_track_data another, in which the SELECT sees what   *)
(* was committed before it and the write is seen from its commit on.  The  *)
(* table is the sequence of its rows, the id of a row its position.        *)
MaxWriters == 2

Writers == 1..MaxWriters

\* the rows of a table as the bag the lookup is defined on
TableBag(table) ==
    [r \in Range(table) |-> Cardinality({i \in DOMAIN table : table[i] = r})]

\* lines 233-237: the id fetchone gives, 0 for no row
select_existing(table, name, artist) ==
    LET ids == {i \in DOMAIN table :
                   /\ name.has /\ artist.has
                   /\ table[i].name = name /\ table[i].artist = artist}
    IN IF ids = {} THEN {0} ELSE ids

\* lines 239-274: the UPDATE of the row found or the INSERT of a new row
write_row(table, track_id, name, artist, tags_dict) ==
    LET tags_json_string ==
            IF tags_dict.none THEN SqlNull ELSE json_dumps(tags_dict.d)
    IN IF track_id # 0
       THEN IF tags_json_string.null THEN table
            ELSE [table EXCEPT ![track_id].tags = tags_json_string]
       ELSE Append(table, [name |-> name, artist |-> artist,
                           tags |-> tags_json_string])

\* what the classifier answers each run with
RaceAnswers == {PyDict(NormalizeResponse(r, "full")) : r \in Responses}

RaceTrack ==
    [BlankTrack EXCEPT !.Name = Attr(<<"n1">>), !.Artist = Attr(<<"a1">>)]

\* the table at the start: no row of the track, a row without tags, a row
\* with a blueprint
RaceTables ==
    { <<>>,
      <<[name |-> RaceTrack.Name, artist |-> RaceTrack.Artist,
         tags |-> SqlNull]>>,
      <<[name |-> RaceTrack.Name, artist |-> RaceTrack.Artist,
         tags |-> json_dumps(MockTags("full"))]>> }

NoWriter == [pc |-> "check", blueprint |-> PyNone, track_id |-> 0,
             wrote |-> PyNone]

InitRace ==
    /\ store \in RaceTables
    /\ job = NoJob
    /\ run = IdleRun
    /\ tracks = <<RaceTrack>>
    /\ call = NoCall
    /\ obs = NoObs
    /\ fin \in {[op |-> "race", answers |-> a] : a \in [Writers -> RaceAnswers]}
    /\ fout = [w |-> [i \in Writers |-> NoWriter], last |-> 0]

\* lines 880-896 of run i: the stored blueprint on a hit, the answer of the
\* classifier on a miss
RaceCheck(i) ==
    /\ fout.w[i].pc = "check"
    /\ \E b \in get_track_blueprint(TableBag(store), RaceTrack.Name,
                                    RaceTrack.Artist, TRUE) :
          fout' = [fout EXCEPT
                     !.w[i].pc = "select",
                     !.w[i].blueprint =
                         IF DictTruthy(b) THEN b ELSE fin.answers[i]]
    /\ UNCHANGED <<store, job, run, tracks, call, obs, fin>>

\* lines 233-237 of run i, in the call of line 902 or of line 1016
RaceSelect(i) ==
    /\ fout.w[i].pc = "select"
    /\ \E track_id \in select_existing(store, RaceTrack.Name,
                                       RaceTrack.Artist) :
          fout' = [fout EXCEPT !.w[i].pc = "write",
                               !.w[i].track_id = track_id]
    /\ UNCHANGED <<store, job, run, tracks, call, obs, fin>>

\* lines 239-274 of run i and the commit
RaceWrite(i) ==
    /\ fout.w[i].pc = "write"
    /\ LET tags_dict == IF BlueprintInvalid(fout.w[i].blueprint) THEN PyNone
                        ELSE fout.w[i].blueprint
       IN /\ store' = write_row(store, fout.w[i].track_id, RaceTrack.Name,
                                RaceTrack.Artist, tags_dict)
          /\ fout' = [fout EXCEPT
                        !.w[i].pc = "done",
                        !.w[i].wrote = tags_dict,
                        !.last = IF tags_dict.none THEN @ ELSE i]
    /\ UNCHANGED <<job, run, tracks, call, obs, fin>>

NextRace == \E i \in Writers : RaceCheck(i) \/ RaceSelect(i) \/ RaceWrite(i)

SpecRace == InitRace /\ [][NextRace]_vars

-----------------------------------------------------------------------------
(* The job log under cleanup_stale_jobs: jobs are started, their tasks end *)
(* and log the end, the application is started again at any time and runs  *)
(* the cleanup.  Time is counted in hours.                                 *)
MaxJobs == 2
MaxHours == 3
stale_hours == 2

\* a row of processing_log that is not there yet, and its task
NoTask ==
    [status |-> "none", track_count |-> 0, timestamp |-> 0, task |-> "none"]

InitJobs ==
    /\ store = EmptyBag
    /\ job = NoJob
    /\ run = IdleRun
    /\ tracks = <<>>
    /\ call = NoCall
    /\ obs = NoObs
    /\ fin = [op |-> "jobs"]
    /\ fout = [now |-> 0, jobs |-> [j \in 1..MaxJobs |-> NoTask]]

\* upload_library: log_job_start and the dispatch of the task
LogJobStart(j) ==
    /\ fout.jobs[j].status = "none"
    /\ fout' = [fout EXCEPT !.jobs[j] = [NoTask EXCEPT
                                           !.status = "In Progress",
                                           !.timestamp = fout.now,
                                           !.task = "running"]]
    /\ UNCHANGED <<store, job, run, tracks, call, obs, fin>>

\* an hour passes
Tick ==
    /\ fin.op = "jobs"
    /\ fout.now < MaxHours
    /\ fout' = [fout EXCEPT !.now = @ + 1]
    /\ UNCHANGED <<store, job, run, tracks, call, obs, fin>>

\* lines 1029 and 1041, 826 and 836: the task of job j ends and logs it
TaskEnd(j) ==
    /\ fout.jobs[j].task = "running"
    /\ \E status \in {"Completed", "Failed"}, db_ok \in BOOLEAN :
          fout' = [fout EXCEPT
                     !.jobs[j] = [log_job_end(@, status,
                                              IF status = "Completed" THEN 1
                                              ELSE 0, db_ok)
                                    EXCEPT !.task = "ended"]]
    /\ UNCHANGED <<store, job, run, tracks, call, obs, fin>>

\* cleanup_stale_jobs, at the start of the application
CleanupStaleJobs ==
    /\ fin.op = "jobs"
    /\ \E db_ok \in BOOLEAN :
          LET cutoff_time == fout.now - stale_hours
          IN fout' = [fout EXCEPT
                        !.jobs = [j \in 1..MaxJobs |->
                                    IF /\ db_ok
                                       /\ @[j].status = "In Progress"
                                       /\ @[j].timestamp < cutoff_time
                                    THEN [@[j] EXCEPT !.status = "Failed"]
                                    ELSE @[j]]]
    /\ UNCHANGED <<store, job, run, tracks, call, obs, fin>>

NextJobs ==
    \/ \E j \in 1..MaxJobs : LogJobStart(j)
    \/ Tick
    \/ \E j \in 1..MaxJobs : TaskEnd(j)
    \/ CleanupStaleJobs

SpecJobs == InitJobs /\ [][NextJobs]_vars

-----------------------------------------------------------------------------
(* get_primary_genre on its own: one TRACK, every course of the service.   *)
(* In a Genre text "," and "/" are single characters as well.              *)

\* re.split(r'[,/]', genre_str)[0]
RECURSIVE re_split_first(_)
re_split_first(genre_str) ==
    IF genre_str = <<>> \/ Head(genre_str) \in {",", "/"} THEN <<>>
    ELSE <<Head(genre_str)>> \o re_split_first(Tail(genre_str))

\* the whole Genre text taken for the genre
parsed_genre_whole(track_element) ==
    Strip(GetOr(track_element.Genre, <<>>))

\* lines 657-663: the genre the Genre attribute gives, <<>> for none
parsed_genre(track_element) ==
    LET genre_str == Strip(GetOr(track_element.Genre, <<>>))
    IN IF genre_str = <<>> THEN <<>> ELSE Strip(re_split_first(genre_str))

\* lines 678-689: the genre taken from the answer of the classifier
primary_genre_from_ai(ai_response) ==
    LET pg == ai_response.primary_genre
    IN IF pg.t = "list" /\ pg.s # <<>> /\ pg.s[1] # ""
       THEN <<pg.s[1]>>
       ELSE <<"Miscellaneous">>

GenreTexts ==
    { <<>>, <<" ">>, <<"House">>,
      <<"House", ",", " ", "Tech", " ", "House">>,
      <<" ", "House", " ", "/", " ", "Techno">>,
      <<",", " ", "House">>,
      <<" ", "/", "Techno">>,
      <<"Drum", " ", "&", " ", "Bass">>,
      <<"\n", "Disco", "\n">> }

GenreInputs ==
    { [op |-> "primary_genre", api_key |-> k,
       track |-> [BlankTrack EXCEPT !.Name = Attr(<<"n1">>),
                                    !.Artist = a, !.Genre = g]] :
        k \in BOOLEAN, a \in {NoAttr, Attr(<<"a1">>)},
        g \in {NoAttr} \cup {Attr(t) : t \in GenreTexts} }

NoGenre == [status |-> "idle", primary_genre |-> <<>>, calls |-> 0]

InitGenre ==
    /\ store = EmptyBag
    /\ job = NoJob
    /\ run = IdleRun
    /\ tracks = <<>>
    /\ call = NoCall
    /\ obs = NoObs
    /\ fin \in GenreInputs
    /\ fout = NoGenre

\* what get_primary_genre does with the call of line 676 as it stands
AfterGenreCall(g, c) ==
    CASE c.status = "returned" ->
             [g EXCEPT !.status = "returned",
                       !.primary_genre = primary_genre_from_ai(c.result)]
      [] c.status = "raised" -> [g EXCEPT !.status = "raised"]
      [] OTHER -> [g EXCEPT !.status = "asking"]

\* lines 657-676: the local genre, or the call of the classifier up to its
\* first request
GetPrimaryGenre ==
    /\ fin.op = "primary_genre"
    /\ fout.status = "idle"
    /\ LET primary_genre == parsed_genre(fin.track)
       IN IF primary_genre # <<>>
          THEN /\ fout' = [fout EXCEPT !.status = "returned",
                                       !.primary_genre = primary_genre]
               /\ UNCHANGED call
          ELSE /\ call' = BeginCall(fin.api_key, fin.track.Artist.has,
                                    fin.track.Name.has, "genre_only")
               /\ fout' = AfterGenreCall([fout EXCEPT !.calls = @ + 1], call')
    /\ UNCHANGED <<store, job, run, tracks, obs, fin>>

\* one request of the call of line 676
GenreAttempt ==
    /\ fin.op = "primary_genre"
    /\ fout.status = "asking"
    /\ call.status = "running"
    /\ \E kind \in ServiceKinds, response \in Responses :
       \E handler \in AttemptHandlers(kind) :
          /\ kind # "object" => response = CHOOSE r \in Responses : TRUE
          /\ call' = AttemptStep(call, kind, handler, response)
    /\ fout' = AfterGenreCall(fout, call')
    /\ UNCHANGED <<store, job, run, tracks, obs, fin>>

NextGenre == GetPrimaryGenre \/ GenreAttempt

SpecGenre == InitGenre /\ [][NextGenre]_vars

-----------------------------------------------------------------------------
(* split_xml_by_genre with its tracks: Stage 1 sorts the tracks by raw      *)
(* genre, Stage 2 gets a bucket for each raw genre, and one file is written *)
(* for each bucket.  A track is known by its place in the COLLECTION.       *)
MaxSplitTracks == 3

\* Genre texts whose first segment is one word, or none
SplitGenres ==
    { <<>>, <<"House", ",", " ", "Techno">>, <<" ", "Techno">>, <<"R&B">> }

\* the bucket names Stage 2 can come back with (they are not validated)
SplitBuckets == {"Electronic", "Hip Hop", "Hip_Hop", "Miscellaneous"}

NoFiles ==
    [status |-> "stage1", genre_groups |-> [g \in {} |-> {}],
     main_genre_buckets |-> [b \in {} |-> {}],
     files |-> [f \in {} |-> [Entries |-> 0, tracks |-> {}]],
     created_files |-> {}, failed |-> {}]

InitFiles ==
    /\ store = EmptyBag
    /\ job = NoJob
    /\ run = IdleRun
    /\ \E n \in 0..MaxSplitTracks :
       \E genres \in [1..n -> SplitGenres] :
          tracks = [i \in 1..n |-> [BlankTrack EXCEPT
                                      !.Name = Attr(<<"n1">>),
                                      !.Artist = Attr(<<"a1">>),
                                      !.Genre = Attr(genres[i])]]
    /\ call = NoCall
    /\ obs = NoObs
    /\ fin = [op |-> "files"]
    /\ fout = NoFiles

\* lines 704-722: no tracks, or Stage 1; get_primary_genre gives the local
\* genre or what the classifier answered
Stage1Sort ==
    /\ fin.op = "files"
    /\ fout.status = "stage1"
    /\ IF tracks = <<>>
       THEN fout' = [fout EXCEPT !.status = "returned"]
       ELSE \E answers \in [DOMAIN tracks -> {"Miscellaneous", "Techno"}] :
               LET primary_genre ==
                       [i \in DOMAIN tracks |->
                           IF parsed_genre(tracks[i]) # <<>>
                           THEN parsed_genre(tracks[i])[1]
                           ELSE answers[i]]
               IN /\ \A i \in DOMAIN tracks :
                        parsed_genre(tracks[i]) # <<>> =>
                           answers[i] = "Miscellaneous"
                  /\ fout' = [fout EXCEPT
                                !.status = "stage2",
                                !.genre_groups =
                                    [g \in Range(primary_genre) |->
                                        {i \in DOMAIN tracks :
                                            primary_genre[i] = g}]]
    /\ UNCHANGED <<store, job, run, tracks, call, obs, fin>>

\* one file per written name: the bucket written last under the name
WrittenFiles(main_genre_buckets, written) ==
    {files \in [{filename(b) : b \in written} ->
                   {[Entries |-> Cardinality(main_genre_buckets[b]),
                     tracks |-> main_genre_buckets[b]] : b \in written}] :
        \A f \in DOMAIN files :
           \E b \in written :
              /\ filename(b) = f
              /\ files[f] = [Entries |-> Cardinality(main_genre_buckets[b]),
                             tracks |-> main_genre_buckets[b]]}

\* lines 724-783: Stage 2, the buckets and the files; a write that raises
\* IOError is reported and its file is not among the created ones
GroupAndWrite ==
    /\ fin.op = "files"
    /\ fout.status = "stage2"
    /\ \E answered \in [DOMAIN fout.genre_groups -> SplitBuckets] :
          LET genre_map == OverrideRnB(answered)
              by_bucket == GroupByBucket(genre_map, DOMAIN fout.genre_groups)
              main_genre_buckets ==
                  [b \in DOMAIN by_bucket |->
                      UNION {fout.genre_groups[g] : g \in by_bucket[b]}]
          IN \E failed \in SUBSET DOMAIN main_genre_buckets :
             \E files \in WrittenFiles(main_genre_buckets,
                                       DOMAIN main_genre_buckets \ failed) :
                fout' = [fout EXCEPT
                           !.status = "returned",
                           !.main_genre_buckets = main_genre_buckets,
                           !.files = files,
                           !.created_files = DOMAIN files,
                           !.failed = failed]
    /\ UNCHANGED <<store, job, run, tracks, call, obs, fin>>

NextFiles == Stage1Sort \/ GroupAndWrite

SpecFiles == InitFiles /\ [][NextFiles]_vars

-----------------------------------------------------------------------------
(* call_llm_for_tags on answers of every shape: the call is past line 413  *)
(* (key set, artist and title present) and the service answers with one    *)
(* object, or fails, on every request.                                     *)
ShapedResponses ==
    { [EmptyDict EXCEPT !.primary_genre = pg, !.sub_genre = sg,
                        !.energy_level = el, !.extra = JStr("note")] :
        pg \in {JAbsent, JNull, JStr("Rock"), JInt(5), JList(<<>>),
                JList(<<"Techno", "House">>)},
        sg \in {JAbsent, JNull, JStr("Deep House"), JList(<<"Deep House">>)},
        el \in {JAbsent, JInt(8)} }

InitNormalize ==
    /\ store = EmptyBag
    /\ job = NoJob
    /\ run = IdleRun
    /\ tracks = <<>>
    /\ \E mode \in {"full", "genre_only"} :
          call = BeginCall(TRUE, TRUE, TRUE, mode)
    /\ obs = NoObs
    /\ \E json_response \in ShapedResponses :
          fin = [op |-> "normalize", json_response |-> json_response]
    /\ fout = <<>>

\* lines 476-541: one request of the call
NormalizeAttempt ==
    /\ fin.op = "normalize"
    /\ call.status = "running"
    /\ \E kind \in ServiceKinds :
       \E handler \in AttemptHandlers(kind) :
          call' = AttemptStep(call, kind, handler, fin.json_response)
    /\ UNCHANGED <<store, job, run, tracks, obs, fin, fout>>

NextNormalize == NormalizeAttempt

SpecNormalize == InitNormalize /\ [][NextNormalize]_vars

-----------------------------------------------------------------------------
(* Claims about the cache and the classifier in a tagging run (Spec) *)

\* the track the run has in hand
TrackInHand == tracks[run.index]

\* the step of ProcessTags
TagsStep == run.pc = "tags" /\ run' # run

\* the step of CacheCheck
CheckStep == run.pc = "track" /\ run.config.level # "Clear" /\ run' # run

C2_StoredUnconditionally ==
    [][(/\ TagsStep /\ ~obs.hit
        /\ TrackInHand.Name.has /\ TrackInHand.Artist.has
        /\ run'.pc # "abort" /\ obs'.write_ok) =>
          /\ obs.calls = 1
          /\ get_track_blueprint(store', TrackInHand.Name,
                                 TrackInHand.Artist, TRUE)
               = {run.blueprint}]_vars

\* the rows of the track in hand, attribute for attribute
RowsOf(rows, track) ==
    {r \in BagToSet(rows) : r.name = track.Name /\ r.artist = track.Artist}

\* the rows that hold a blueprint
Blueprints(rows) ==
    [r \in {x \in BagToSet(rows) : ~x.tags.null} |-> rows[r]]

\* C2 amended: on a miss the classifier is invoked.  When the blueprint it
\* returned has a non-empty primary_genre and the track is rendered, the
\* write that meets no storage error leaves a row of (Name, Artist) holding
\* exactly that blueprint: the row the lookup finds is given it whole (no
\* tag of the old blueprint survives), else a row is added.  When the
\* blueprint has no primary_genre no blueprint is written and every stored
\* blueprint stays; a write that meets a storage error changes nothing.
C2_StoredWhenValid ==
    [][(TagsStep /\ ~obs.hit) =>
          /\ obs.calls = 1
          /\ IF ~obs'.write_ok \/ run'.pc = "abort"
             THEN store' = store
             ELSE IF BlueprintInvalid(run.blueprint)
             THEN Blueprints(store') = Blueprints(store)
             ELSE /\ \E r \in RowsOf(store', TrackInHand) :
                        r.tags = json_dumps(run.blueprint.d)
                  /\ MatchingRows(store, TrackInHand.Name,
                                  TrackInHand.Artist) # {} =>
                        /\ BagCardinality(store') = BagCardinality(store)
                        /\ \A r \in MatchingRows(store', TrackInHand.Name,
                                                 TrackInHand.Artist) :
                              r.tags = json_dumps(run.blueprint.d)]_vars

\* a miss on a track that had a blueprint stored (the read failed), and the
\* blueprint of the classifier has been written over it
C2_Witness ==
    /\ obs.stored /\ ~obs.read_ok /\ ~obs.hit /\ obs.calls = 1
    /\ obs.saved = "blueprint" /\ obs.write_ok
    /\ run.api_key

\* C3: insert_track_data(id, B) followed by get_track_blueprint(id) returns
\* B; and once a miss for id was followed by classification and the write,
\* every later cache check for id returns that blueprint and calls the
\* classifier no more.  (Storage errors are left aside.)
C3_RoundTrip ==
    /\ []((obs.saved = "blueprint" /\ obs.write_ok) =>
             get_track_blueprint(store, tracks[obs.index].Name,
                                 tracks[obs.index].Artist, TRUE)
               = {run.blueprint})
    /\ [][(/\ CheckStep
           /\ obs'.read_ok
           /\ \E r \in RowsOf(store, TrackInHand) : ~r.tags.null) =>
             /\ obs'.hit
             /\ obs'.calls = 0
             /\ \E r \in RowsOf(store, TrackInHand) :
                   run'.blueprint = PyDict(json_loads(r.tags))]_vars

\* C7: a classifier-side failure on a track (a request lost in transport or
\* to an HTTP error, an empty or malformed response, retries exhausted)
\* never aborts the run; only a structural parse failure of the input
\* collection does.  (A failure to write the output file is left aside.)
C7_OnlyParseAborts ==
    /\ call.last \in ServiceKinds \ {"object"} => run.pc # "abort"
    /\ run.pc = "abort" => run.cause \in {"structural", "write"}

-----------------------------------------------------------------------------
(* Claims about the blueprints of a tagging run (Spec) *)

\* the blueprints the store holds
StoredBlueprints == {json_loads(r.tags) : r \in {x \in BagToSet(store) : ~x.tags.null}}

\* primary_genre is a list of exactly one non-empty string
OnePrimaryGenre(d) ==
    /\ d.primary_genre.t = "list"
    /\ Len(d.primary_genre.s) = 1
    /\ d.primary_genre.s[1] \notin {""} \cup NonStringTags

\* C15: every blueprint call_llm_for_tags returns, every blueprint a track
\* is rendered from and every blueprint in the store has a primary_genre
\* that is a list of exactly one non-empty string.
C15_OnePrimaryGenre ==
    /\ call.status = "returned" => OnePrimaryGenre(call.result)
    /\ obs.saved = "blueprint" => OnePrimaryGenre(run.blueprint.d)
    /\ \A d \in StoredBlueprints : OnePrimaryGenre(d)

\* energy_level is absent, null, or an integer of 1..10
EnergyInRange(d) ==
    \/ d.energy_level.t \in {"absent", "null"}
    \/ d.energy_level.t = "int" /\ d.energy_level.n \in 1..10

\* C16: in every blueprint call_llm_for_tags returns, a track is rendered
\* from or the store holds, energy_level is absent, null or an integer
\* between 1 and 10.
C16_EnergyInRange ==
    /\ call.status = "returned" => EnergyInRange(call.result)
    /\ obs.saved = "blueprint" => EnergyInRange(run.blueprint.d)
    /\ \A d \in StoredBlueprints : EnergyInRange(d)

\* C17: from the empty store, after any tagging and Clear runs, no stored
\* blueprint lacks a non-empty primary_genre, so get_track_blueprint
\* returns None or a blueprint that has one, for every track and whether
\* the read fails or not.
C17_StoredPassedCheck ==
    /\ \A d \in StoredBlueprints : Truthy(d.primary_genre)
    /\ \A t \in TrackPool, db_ok \in BOOLEAN :
          \A b \in get_track_blueprint(store, t.Name, t.Artist, db_ok) :
              b.none \/ Truthy(b.d.primary_genre)

\* the classifier answered with an empty primary_genre for a track while
\* the store holds a blueprint: the track was written without one
C17_Witness ==
    /\ StoredBlueprints # {}
    /\ \E r \in BagToSet(store) : r.tags.null
    /\ obs.saved = "null" /\ obs.write_ok
    /\ ~run.blueprint.none
    /\ run.blueprint.d.primary_genre = JList(<<>>)

-----------------------------------------------------------------------------
(* Claims about the classifier client on its own (SpecClient) *)

\* C4: call_llm_for_tags never raises: whatever the track and whatever the
\* service does, in both modes, the call ends by returning a blueprint.
C4_NeverRaises ==
    /\ call.status # "raised"
    /\ call.status \in {"idle", "running", "returned"}

\* C5: one invocation of call_llm_for_tags sends at most 5 requests whatever
\* each attempt comes to, and ends: the loop is never past its fifth pass;
\* five attempts that all failed in transport or with an HTTP error end in
\* the fallback blueprint of the mode.  A batch of get_genre_map_from_ai is
\* under the same ceiling.
C5_RequestCeiling ==
    /\ call.requests <= max_retries
    /\ call.attempt <= call.requests
    /\ call.status = "running" => call.attempt < max_retries
    /\ call.sleeps = max_retries =>
          /\ call.status = "returned"
          /\ call.result = Fallback(call.mode)
          /\ call.result.primary_genre = JList(<<"Miscellaneous">>)
          /\ call.result.sub_genre = JList(<<>>)
          /\ call.result.energy_level =
                (IF call.mode = "full" THEN JNull ELSE JAbsent)
    /\ fin.op = "genre_map" =>
          /\ fout.requests <= genre_max_retries
          /\ fout.status = "running" => fout.attempt < genre_max_retries

\* five requests, each lost in transport or to an HTTP error, and the fallback
C5_Witness ==
    /\ call.requests = max_retries
    /\ call.sleeps = max_retries
    /\ call.status = "returned"
    /\ call.last \in {"transport", "http_error"}

\* the outcomes of a request that bring no decodable JSON
NoDecodableJson == {"body_not_json", "no_content", "content_not_json"}

\* C6: the first response that lacks decodable JSON ends the call: no
\* further request, no backoff sleep, the fallback blueprint at once.
C6_NoRetryWithoutJson ==
    [][(/\ fin.op = "tags"
        /\ call.status = "running"
        /\ call' # call
        /\ call'.last \in NoDecodableJson) =>
          /\ call'.status = "returned"
          /\ call'.sleeps = call.sleeps
          /\ call'.result = Fallback(call.mode)]_vars

-----------------------------------------------------------------------------
(* Claims about one TRACK (SpecTrack) *)

Pinned(track) == track.Colour.has /\ track.Colour.v = ManualOverride

\* the table of the staircase: <<Rating, Colour, Grouping>> of a level
Staircase(level) ==
    CASE level >= 9 -> <<"255", "0xFF007F", "Pink">>
      [] level = 8 -> <<"204", "0xFFA500", "Orange">>
      [] level \in {6, 7} -> <<"153", "0xFFFF00", "Yellow">>
      [] level \in {4, 5} -> <<"102", "0x00FF00", "Green">>
      [] OTHER -> <<"51", "0x25FDE9", "Aqua">>

\* C11: for a track that is not pinned, the Rating, Colour and Grouping a
\* render writes follow the staircase for the levels 1..10 (9-10 255/Pink,
\* 8 204/Orange, 6-7 153/Yellow, 4-5 102/Green, 1-3 51/Aqua), a null or
\* absent level gives Rating 0 and no Colour or Grouping, and over 1..10
\* the rating never falls as the level rises.
C11_Staircase ==
    /\ (fin.op = "render" /\ fout # <<>> /\ ~Pinned(fin.track)) =>
          LET e == fin.tags.energy_level
          IN /\ (e.t = "int" /\ e.n \in 1..10) =>
                   /\ fout[1].Rating = Attr(<<Staircase(e.n)[1]>>)
                   /\ fout[1].Colour = Attr(<<Staircase(e.n)[2]>>)
                   /\ fout[1].Grouping = Attr(<<Staircase(e.n)[3]>>)
             /\ e.t \in {"null", "absent"} =>
                   /\ fout[1].Rating = Attr(<<"0">>)
                   /\ fout[1].Colour = NoAttr
                   /\ fout[1].Grouping = NoAttr
    /\ \A a \in 1..10 : \A b \in a..10 :
          convert_energy_to_rating(JInt(a)) <= convert_energy_to_rating(JInt(b))

\* a track that was Green is rendered with level 8: Orange, 204
C11_Witness ==
    /\ fin.op = "render" /\ fout # <<>>
    /\ fin.track.Colour = Attr(<<"0x00FF00">>)
    /\ fin.tags.energy_level = JInt(8)
    /\ fout[1].Rating = Attr(<<"204">>)
    /\ fout[1].Grouping = Attr(<<"Orange">>)

\* C12: a render of a track whose Colour is 0xFF0000 leaves its Colour,
\* Grouping and Rating as they were, and still writes Genre and Comments
\* from the blueprint.
C12_PinnedUntouched ==
    (fin.op = "render" /\ fout # <<>> /\ Pinned(fin.track)) =>
        /\ fout[1].Colour = fin.track.Colour
        /\ fout[1].Grouping = fin.track.Grouping
        /\ fout[1].Rating = fin.track.Rating
        /\ NewGenreParts(fin.tags) # <<>> =>
              fout[1].Genre = Attr(NewGenreParts(fin.tags))
        /\ fout[1].Comments =
              Attr(Strip(Strip(RemoveBlocks(GetOr(fin.track.Comments, <<>>)))
                         \o <<" ">> \o new_comments(fin.tags)))

\* C13: clear_ai_tags is idempotent: a cleared track cleared again is the
\* same on every attribute, whatever its Comments.
C13_ClearIdempotent ==
    (fin.op = "clear" /\ Len(fout) = 2) => fout[2] = fout[1]

\* s holds a block: "/*" and, after it, "*/"
HoldsBlock(s) ==
    \E i \in 1..Len(s), j \in 1..Len(s) :
        /\ i + 2 <= j /\ j < Len(s)
        /\ s[i] = "/" /\ s[i + 1] = "*"
        /\ s[j] = "*" /\ s[j + 1] = "/"

\* C14: clear_ai_tags takes every /* ... */ block out of Comments and keeps
\* the text outside the blocks (Comments without a block are kept, less the
\* blanks at their ends), sets Rating to 0, removes Colour and Grouping
\* unless the Colour is 0xFF0000, which keeps both, and changes no other
\* attribute.
C14_ClearEffect ==
    (fin.op = "clear" /\ fout # <<>>) =>
        LET before == GetOr(fin.track.Comments, <<>>)
            after == fout[1].Comments
        IN /\ after.has
           /\ ~HoldsBlock(after.v)
           /\ ~HoldsBlock(before) => after.v = Strip(before)
           /\ fout[1].Rating = Attr(<<"0">>)
           /\ IF Pinned(fin.track)
              THEN /\ fout[1].Colour = fin.track.Colour
                   /\ fout[1].Grouping = fin.track.Grouping
              ELSE /\ fout[1].Colour = NoAttr
                   /\ fout[1].Grouping = NoAttr
           /\ fout[1].Name = fin.track.Name
           /\ fout[1].Artist = fin.track.Artist
           /\ fout[1].Genre = fin.track.Genre

-----------------------------------------------------------------------------
(* Claims about Stage 2 of a split run (SpecSplit) *)

Grouped == fin.op = "split" /\ fout.status = "grouped"

\* C18 as stated: after Stage 2 every raw genre of Stage 1 is a key of the
\* map the tracks are grouped by, and a genre the classifier gave no answer
\* for (absent from the response, or in a batch that failed) is mapped to
\* Miscellaneous.
C18_AllKeysMiscFallback ==
    Grouped =>
       /\ DOMAIN fout.genre_map = Range(fin.genre_list)
       /\ \A g \in Range(fin.genre_list) :
             g \notin fout.answered => fout.genre_map[g] = "Miscellaneous"

\* C18, amended: after Stage 2 every raw genre of Stage 1 is a key of the
\* map the tracks are grouped by and is grouped under the bucket the map
\* gives it; a genre the classifier gave no answer for is mapped to
\* Miscellaneous, except "R&B", which the override maps to Hip Hop.
C18_AllKeysFallback ==
    Grouped =>
       /\ DOMAIN fout.genre_map = Range(fin.genre_list)
       /\ \A g \in Range(fin.genre_list) :
             /\ fout.genre_map[g] \in DOMAIN fout.main_genre_buckets
             /\ g \in fout.main_genre_buckets[fout.genre_map[g]]
             /\ g \notin fout.answered =>
                   fout.genre_map[g] =
                      (IF g = "R&B" THEN "Hip Hop" ELSE "Miscellaneous")

\* two batches: the first answered in part, the second failed
C18_Witness ==
    /\ Grouped
    /\ Len(fin.genre_list) > batch_size
    /\ fout.answered = {"Deep House", "Acid Techno"}
    /\ fout.genre_map["Deep House"] = "Electronic"
    /\ fout.genre_map["Unknown Xyz"] = "Miscellaneous"
    /\ fout.genre_map[fin.genre_list[Len(fin.genre_list)]] = "Miscellaneous"
    /\ fout.last \in {"transport", "http_error", "content_not_json"}

\* C19: every value of the genre map, every bucket the tracks are grouped
\* into and every output file name is one of the fixed main buckets,
\* whatever bucket values the classifier returns.
C19_OnlyMainBuckets ==
    /\ (fin.op = "split" /\ fout.status \in {"returned", "grouped"}) =>
          \A g \in DOMAIN fout.final_genre_map :
             fout.final_genre_map[g] \in MAIN_GENRE_BUCKETS
    /\ Grouped =>
          /\ \A g \in DOMAIN fout.genre_map :
                fout.genre_map[g] \in MAIN_GENRE_BUCKETS
          /\ DOMAIN fout.main_genre_buckets \subseteq MAIN_GENRE_BUCKETS
          /\ fout.created_files \subseteq
                {filename(b) : b \in MAIN_GENRE_BUCKETS}

\* the map of the example of C20
ExampleMap ==
    [g \in {"Deep House", "Acid Techno", "R&B", "Unknown Xyz"} |->
        CASE g \in {"Deep House", "Acid Techno"} -> "Electronic"
          [] g = "R&B" -> "Hip Hop"
          [] OTHER -> "Miscellaneous"]

\* C20: when the raw genre "R&B" occurs, the final genre map sends it to
\* Hip Hop and its tracks are grouped there, whatever the classifier
\* answered for it and when the classifier failed; for the raw genres
\* Deep House, Acid Techno, R&B, Unknown Xyz and a classifier that maps the
\* first two to Electronic and nothing else, the final map is the map of
\* the example.
C20_RnBOverride ==
    Grouped =>
       /\ "R&B" \in Range(fin.genre_list) =>
             /\ fout.genre_map["R&B"] = "Hip Hop"
             /\ "R&B" \in fout.main_genre_buckets["Hip Hop"]
       /\ (/\ fin.genre_list = Take(GenrePool, 4)
           /\ fout.answered = {"Deep House", "Acid Techno"}
           /\ fout.final_genre_map["Deep House"] = "Electronic"
           /\ fout.final_genre_map["Acid Techno"] = "Electronic") =>
             fout.genre_map = ExampleMap

\* the example of the claim
C20_Witness ==
    /\ Grouped
    /\ fin.genre_list = Take(GenrePool, 4)
    /\ fout.answered = {"Deep House", "Acid Techno"}
    /\ fout.final_genre_map["R&B"] = "Miscellaneous"
    /\ fout.genre_map = ExampleMap

-----------------------------------------------------------------------------
(* Claims about the modes and the course of a tagging run (Spec) *)

\* a step inside one run
SameRun == run'.no = run.no

\* the step of ClearTrack
ClearStep == run.pc = "track" /\ run.config.level = "Clear" /\ run' # run

\* C22: a run of level Clear applies clear_ai_tags to every track and
\* nothing else: the classifier is never called, no cache check is made, and
\* the blueprints the store holds stay as they are, none changed, none
\* removed.
C22_ClearOnly ==
    /\ [](run.config.level = "Clear" =>
             /\ call = NoCall
             /\ obs.calls = 0
             /\ ~obs.hit /\ ~obs.stored
             /\ run.blueprint = PyNone
             /\ run.pc \notin {"classify", "tags"})
    /\ [][(run.config.level = "Clear" /\ SameRun) =>
             /\ Blueprints(store') = Blueprints(store)
             /\ ClearStep =>
                   /\ tracks' = [tracks EXCEPT ![run.index] =
                                    clear_ai_tags(TrackInHand)]
                   /\ obs'.saved = "null"]_vars

\* a Clear run has ended over a track whose blueprint an earlier run stored
C22_Witness ==
    /\ run.no = 2 /\ run.config.level = "Clear" /\ run.pc = "done"
    /\ job.status = "Completed"
    /\ obs.saved = "null" /\ obs.write_ok
    /\ \E i \in 1..Len(tracks) :
          \E r \in MatchingRows(store, tracks[i].Name, tracks[i].Artist) :
             ~r.tags.null

\* C23: a run of level None calls the classifier for no track and changes
\* no attribute of any track: the output tracks are the input tracks, each
\* persisted without a blueprint.
C23_NoneUnchanged ==
    /\ [](run.config.level = "None" =>
             /\ call = NoCall
             /\ obs.calls = 0
             /\ obs.saved # "blueprint")
    /\ [][(run.config.level = "None" /\ SameRun) => tracks' = tracks]_vars

\* C24: a document without COLLECTION aborts the run before any track: no
\* classifier call, no cache read or write, no output file, and the job
\* ends Failed with the one reason of the abort.  The first two conjuncts
\* are the tagging run, the third is the split run.
C24_NoCollectionAborts ==
    /\ []((fin.op = "none" /\ run.doc = "no_collection") =>
             /\ run.index = 0 /\ run.processed_count = 0
             /\ call = NoCall /\ obs = NoObs
             /\ ~job.output
             /\ run.pc \in {"parse", "abort", "done"}
             /\ run.pc \in {"abort", "done"} => run.cause = "structural"
             /\ run.pc = "done" => job.status = "Failed")
    /\ [][(fin.op = "none" /\ run.doc = "no_collection" /\ SameRun) =>
             store' = store]_vars
    /\ []((fin.op = "split" /\ fin.doc = "no_collection") =>
             /\ fout.status \in {"parse", "raised"}
             /\ fout.requests = 0 /\ call = NoCall
             /\ fout.created_files = {} /\ ~job.output
             /\ store = EmptyBag
             /\ run.pc = "done" =>
                   /\ job.status = "Failed"
                   /\ run.cause = "structural")

\* the step of ProcessTags on a blueprint that fails the check of 899-900
DegradedStep == TagsStep /\ BlueprintInvalid(run.blueprint)

\* the step of ProcessTags after a call whose five attempts all failed
ExhaustedStep ==
    /\ TagsStep
    /\ call.status = "returned"
    /\ call.sleeps = max_retries

\* C25 as stated: a track whose blueprint is degraded (it fails the check,
\* or every attempt of the classifier failed) is persisted with null tags
\* and the run goes on with the next track.
C25_DegradedPersistedNull ==
    [][(DegradedStep \/ ExhaustedStep) =>
          /\ run'.pc \in {"track", "finish"}
          /\ \E r \in RowsOf(store', TrackInHand) : r.tags.null]_vars

\* C25, amended: a track whose blueprint fails the check is left as it was
\* in the document and is written without a blueprint: the write that meets
\* no storage error leaves a row for the track (a new row has null tags, a
\* row already there keeps the tags it had), a write that meets one is lost;
\* either way the run goes on with the next track.  A call whose attempts
\* all failed returns the fallback blueprint, which passes the check: the
\* track is rendered from it and the fallback is stored as its blueprint.
C25_DegradedPersisted ==
    /\ [][DegradedStep =>
             /\ run'.pc \in {"track", "finish"}
             /\ run'.pc = "track" => run'.index = run.index + 1
             /\ tracks' = tracks
             /\ obs'.saved = "null"
             /\ Blueprints(store') = Blueprints(store)
             /\ IF obs'.write_ok
                THEN /\ RowsOf(store', TrackInHand) # {}
                     /\ RowsOf(store, TrackInHand) = {} =>
                           \A r \in RowsOf(store', TrackInHand) : r.tags.null
                ELSE store' = store]_vars
    /\ [][ExhaustedStep =>
             /\ run.blueprint = PyDict(Fallback("full"))
             /\ ~BlueprintInvalid(run.blueprint)
             /\ run'.pc \in {"track", "finish"}
             /\ tracks'[run.index] =
                   RenderTrack(TrackInHand,
                               apply_user_config_to_tags(run.blueprint.d,
                                                         run.config))
             /\ obs'.write_ok =>
                   \E r \in RowsOf(store', TrackInHand) :
                      r.tags = json_dumps(Fallback("full"))]_vars

\* the classifier answered the first track with an empty primary_genre: the
\* track has a row without tags and the run is at the second track
C25_Witness ==
    /\ run.pc = "track" /\ run.index = 2
    /\ obs.index = 1 /\ obs.calls = 1 /\ obs.saved = "null" /\ obs.write_ok
    /\ ~run.blueprint.none
    /\ run.blueprint.d.primary_genre = JList(<<>>)
    /\ \E r \in RowsOf(store, tracks[1]) : r.tags.null

\* C26: the tracks of a run are gone through one at a time in collection
\* order: the index moves by one, and only in the step that persists the
\* track in hand (or from the parse to the first track); a classifier call
\* is begun for the track in hand only and is over before the index moves,
\* so no two calls are ever in progress.
C26_OneAtATime ==
    /\ [](/\ call.status = "running" => run.pc = "classify"
          /\ run.pc \in {"track", "classify", "tags"} =>
                run.index \in 1..Len(tracks)
          /\ run.pc \in {"classify", "tags"} => obs.index = run.index
          /\ obs.index <= run.index
          /\ obs.calls <= 1)
    /\ [][(SameRun /\ run'.index # run.index) =>
             /\ run'.index = run.index + 1
             /\ run.pc \in {"parse", "track", "tags"}
             /\ call'.status # "running"
             /\ run.pc # "parse" =>
                   /\ obs'.index = run.index
                   /\ obs'.saved # "none"]_vars
    /\ [][(call'.status = "running" /\ call.status # "running") =>
             /\ run'.index = run.index
             /\ obs'.index = run.index
             /\ obs'.calls = 1]_vars

\* the first track was rendered and saved, the call for the second goes on
C26_Witness ==
    /\ run.index = 2 /\ obs.index = 2
    /\ run.pc = "classify" /\ call.status = "running" /\ call.requests >= 1
    /\ run.processed_count = 1

\* C28 (what holds of a run that has ended, tagging or split): its job is
\* Completed, the whole collection gone through and the output written, or
\* Failed with the one reason of the abort; it is never left In Progress.
C28_EndsCompletedOrFailed ==
    run.pc = "done" =>
       /\ job.status \in {"Completed", "Failed"}
       /\ job.status = "Failed" => run.cause # "none"
       /\ (fin.op = "none" /\ job.status = "Completed") =>
             /\ job.output /\ run.index = Len(tracks) /\ run.cause = "none"
       /\ (fin.op = "split" /\ job.status = "Completed") =>
             /\ fout.status \in {"grouped", "no_tracks"}
             /\ run.cause = "none"

\* C29: after the write-back, Entries is the number of TRACK elements of
\* the output, which is the number of the input: no step of a run adds or
\* removes a track, in any mode and whatever happened to each track.
C29_EntriesMatch ==
    /\ [](job.output =>
             /\ run.entries = Len(tracks)
             /\ Len(tracks) = run.total_tracks)
    /\ [][SameRun => Len(tracks') = Len(tracks)]_vars

\* the output of a run of two tracks, the last of them skipped, is written
C29_Witness ==
    /\ job.output /\ run.pc = "done"
    /\ Len(tracks) = 2 /\ run.entries = 2
    /\ run.processed_count = 1
    /\ obs.saved = "null"

-----------------------------------------------------------------------------
(* Claims about runs on the same track at the same time (SpecRace) *)

RaceOver == \A i \in Writers : fout.w[i].pc = "done"

\* C27: when runs work on the same (Name, Artist) at the same time, the
\* blueprint the store ends with for it is the whole blueprint of the run
\* that wrote last, in every interleaving: the lookup returns that one and
\* no other, and no stored value mixes two blueprints.
C27_LastWriterWins ==
    (fin.op = "race" /\ RaceOver /\ fout.last # 0) =>
       /\ get_track_blueprint(TableBag(store), RaceTrack.Name,
                              RaceTrack.Artist, TRUE)
            = {fout.w[fout.last].wrote}
       /\ \A n \in DOMAIN store :
             \/ store[n].tags.null
             \/ store[n].tags = json_dumps(MockTags("full"))
             \/ \E i \in Writers :
                   /\ ~fout.w[i].wrote.none
                   /\ store[n].tags = json_dumps(fout.w[i].wrote.d)

\* C35: in every interleaving of the writes of concurrent runs the table
\* holds at most one row of the track's (name, artist).
C35_OneRowPerKey ==
    fin.op = "race" =>
       Cardinality({n \in DOMAIN store :
                       /\ store[n].name = RaceTrack.Name
                       /\ store[n].artist = RaceTrack.Artist}) <= 1

-----------------------------------------------------------------------------
(* Claims about get_primary_genre (SpecGenre) *)

\* the text before the first "," or "/" of s, all of s when it has neither
FirstSegment(s) ==
    LET seps == {i \in 1..Len(s) : s[i] \in {",", "/"}}
    IN IF seps = {} THEN s
       ELSE SubSeq(s, 1, (CHOOSE i \in seps : \A j \in seps : i <= j) - 1)

\* C30: get_primary_genre returns the first comma- or slash-delimited
\* segment of Genre, trimmed, whenever that segment is not empty, and then
\* calls no classifier; otherwise it calls the classifier once, in
\* genre_only mode, and returns the first primary_genre entry of the answer,
\* or Miscellaneous when that entry is missing or empty.
C30_PrimaryGenre ==
    fin.op = "primary_genre" =>
       LET local == Strip(FirstSegment(GetOr(fin.track.Genre, <<>>)))
       IN IF local # <<>>
          THEN /\ fout.status \in {"idle", "returned"}
               /\ fout.calls = 0 /\ call = NoCall
               /\ fout.status = "returned" => fout.primary_genre = local
          ELSE /\ fout.status # "idle" =>
                     /\ fout.calls = 1
                     /\ call.mode = "genre_only"
               /\ fout.status = "returned" =>
                     /\ call.status = "returned"
                     /\ LET pg == call.result.primary_genre.s
                        IN fout.primary_genre =
                              (IF pg # <<>> /\ pg[1] # "" THEN <<pg[1]>>
                               ELSE <<"Miscellaneous">>)

C30_Witness ==
    /\ fin.op = "primary_genre"
    /\ fin.track.Genre = Attr(<<",", " ", "House">>)
    /\ fout.status = "returned"
    /\ fout.calls = 1
    /\ call.sleeps = 1
    /\ call.result.primary_genre.s = <<"Techno", "House">>
    /\ fout.primary_genre = <<"Techno">>

-----------------------------------------------------------------------------
(* Claims about the end-to-end scenario (SpecScenario) *)

\* C21: in the run on the three tracks the classifier is invoked for the
\* second track only (not cached, no local genre) and once for it, and the
\* third track, once processed, carries what its stored blueprint renders to
\* and nothing of a classifier answer.
C21_Scenario ==
    fin.op = "scenario" =>
       /\ obs.calls > 0 => obs.index = 2 /\ obs.calls = 1
       /\ run.pc \in {"classify", "tags"} /\ call # NoCall => run.index = 2
       /\ obs.index = 3 /\ obs.saved # "none" =>
             /\ obs.hit /\ obs.calls = 0
             /\ \E blueprint \in StoredBlueprints :
                   tracks[3] = RenderTrack(ScenarioTracks[3],
                                  apply_user_config_to_tags(blueprint,
                                                            ScenarioConfig))

-----------------------------------------------------------------------------
(* Claims about the shape of what call_llm_for_tags returns (SpecNormalize) *)

\* the call returned the object the service sent
ObjectReturned ==
    fin.op = "normalize" /\ call.status = "returned" /\ call.last = "object"

\* what is said of sub_genre and of the fields other than primary_genre
SubGenreAndRest ==
    LET sent == fin.json_response
        got == call.result
    IN /\ sent.sub_genre.t = "absent" =>
             got.sub_genre = (IF call.mode = "genre_only" THEN JList(<<>>)
                              ELSE JAbsent)
       /\ sent.sub_genre.t \notin {"absent", "list"} =>
             got.sub_genre = JList(<<>>)
       /\ sent.sub_genre.t = "list" => got.sub_genre = sent.sub_genre
       /\ \A k \in BlueprintKeys \ {"primary_genre", "sub_genre"} :
             got[k] = sent[k]

\* C31 as stated: a scalar primary_genre (a string or a number) comes back
\* as the list of that one value; an absent or otherwise non-list one as
\* ["Miscellaneous"]; sub_genre absent in genre_only mode, or present and no
\* list, as []; every other field unchanged.
C31_ScalarWrapped ==
    ObjectReturned =>
       LET sent == fin.json_response.primary_genre
           got == call.result.primary_genre
       IN /\ sent.t = "str" => got = JList(sent.s)
          /\ sent.t = "int" => got = JList(<<ToString(sent.n)>>)
          /\ sent.t \in {"absent", "null"} => got = JList(<<"Miscellaneous">>)
          /\ sent.t = "list" => got = sent
          /\ SubGenreAndRest

\* C31, amended: only a string is wrapped; every other primary_genre that is
\* no list, a number included, comes back as ["Miscellaneous"].
C31_StringWrapped ==
    ObjectReturned =>
       LET sent == fin.json_response.primary_genre
           got == call.result.primary_genre
       IN /\ sent.t = "str" => got = JList(sent.s)
          /\ sent.t \notin {"str", "list"} => got = JList(<<"Miscellaneous">>)
          /\ sent.t = "list" => got = sent
          /\ SubGenreAndRest

C31_Witness ==
    /\ ObjectReturned
    /\ call.mode = "genre_only"
    /\ call.sleeps = 2
    /\ fin.json_response.primary_genre = JStr("Rock")
    /\ fin.json_response.sub_genre = JAbsent
    /\ call.result.primary_genre = JList(<<"Rock">>)
    /\ call.result.sub_genre = JList(<<>>)
    /\ call.result.energy_level = fin.json_response.energy_level

-----------------------------------------------------------------------------
(* Claims about successive runs over one track (SpecRerun) *)

\* the blocks a run can append
RunBlocks == {new_comments(tags) : tags \in RerunTags} \ {<<>>}

\* C32: after any number of runs the Comments of the track are the text the
\* user had there, followed by exactly one block of a run.
C32_OneBlockAfterUserText ==
    fin.op = "rerun" =>
       \A i \in 1..Len(fout) :
          \E block \in RunBlocks :
             fout[i].Comments.v =
                IF GetOr(fin.track.Comments, <<>>) = <<>> THEN block
                ELSE fin.track.Comments.v \o <<" ">> \o block

\* the TRACK the last render was given, and the one it gave
BeforeRender == IF Len(fout) = 1 THEN fin.track ELSE fout[Len(fout) - 1]
AfterRender == fout[Len(fout)]

\* C33: a render sets Genre to the entries of primary_genre followed by
\* those of sub_genre, empty strings left out, and when none is left the
\* Genre is the one the track had before; a Genre that was not empty is not
\* empty afterwards.
C33_GenreNeverBlanked ==
    fin.op = "rerun" /\ fout # <<>> =>
       LET tags == run.blueprint.d
           join == SelectSeq(tags.primary_genre.s \o tags.sub_genre.s,
                             LAMBDA g : g # "")
           before == GetOr(BeforeRender.Genre, <<>>)
       IN /\ AfterRender.Genre = Attr(IF join # <<>> THEN join ELSE before)
          /\ before # <<>> => AfterRender.Genre.v # <<>>

C33_Witness ==
    /\ fin.op = "rerun"
    /\ Len(fout) = 2
    /\ run.blueprint.d.primary_genre = JList(<<"">>)
    /\ fout[1].Genre = Attr(<<"House", "Deep House">>)
    /\ fout[2].Genre = Attr(<<"House", "Deep House">>)

-----------------------------------------------------------------------------
(* Claims about what a run stores, whatever its configuration (SpecModes) *)

\* the step of ProcessTags that follows a call of the classifier and saves
\* the blueprint
SaveAfterCall ==
    /\ TagsStep
    /\ obs.calls = 1
    /\ obs'.saved = "blueprint"
    /\ obs'.write_ok

\* C34: what a run stores after it called the classifier is the whole
\* result of the call, which was made with the master configuration, and
\* not the tags trimmed for the run's configuration: the stored blueprint
\* is the same under every configuration, while the TRACK is rendered from
\* the trimmed tags.
C34_StoresFullBlueprint ==
    [][SaveAfterCall =>
          /\ call.status = "returned"
          /\ \E r \in RowsOf(store', TrackInHand) :
                r.tags = json_dumps(call.result)
          /\ tracks'[run.index] =
                RenderTrack(tracks[run.index],
                            apply_user_config_to_tags(call.result, run.config))]_vars

C34_Witness ==
    /\ obs.calls = 1
    /\ obs.saved = "blueprint"
    /\ obs.write_ok
    /\ run.config.level = "None"
    /\ run.index > 0
    /\ tracks[obs.index].Genre = Attr(<<"House">>)
    /\ \E r \in BagToSet(store) :
          /\ ~r.tags.null
          /\ Len(json_loads(r.tags).sub_genre.s) = MaxLen
          /\ Len(json_loads(r.tags).components.s) = MaxLen

-----------------------------------------------------------------------------
(* Claims about the answers of the grouper (SpecSplit, SpecClient) *)

\* C36: when the service answers a batch with an object, a genre of the
\* batch gets the bucket of the entry the object has under the name the
\* prompt showed for the genre, upper and lower case taken as the same, and
\* Miscellaneous only when the object has no such entry.
C36_BucketByPromptName ==
    [][(fin.op \in {"split", "genre_map"} /\ fout.status = "running") =>
          \A policy \in AnswerPolicies :
             fout' = BatchAttemptStep(fout, "object", "return", policy) =>
                LET batch == BatchAt(fout.genre_list, fout.i)
                    genre_map_batch == Answer(policy, batch)
                IN \A g \in Range(batch) :
                      LET keys == {k \in DOMAIN genre_map_batch :
                                      Lower(k) = Lower(PromptName(g))}
                      IN IF keys # {}
                         THEN \E k \in keys :
                                 fout'.final_genre_map[g] = genre_map_batch[k]
                         ELSE fout'.final_genre_map[g] = "Miscellaneous"]_vars

-----------------------------------------------------------------------------
(* Claims about the job log under the cleanup (SpecJobs) *)

\* C37: a status that is Completed or Failed never changes again, whatever
\* the order of the cleanups and of the ends of the tasks; a step changes
\* the status of a job without its task ending only from In Progress to
\* Failed and only when the job is older than 2 hours, and it leaves the
\* task running.
C37_FinalStatusStable ==
    [][fin.op = "jobs" =>
          \A j \in 1..MaxJobs :
             LET before == fout.jobs[j]
                 after == fout'.jobs[j]
             IN /\ before.status \in {"Completed", "Failed"} =>
                      after.status = before.status
                /\ (after.status # before.status /\ after.task = before.task
                    /\ before.status # "none") =>
                      /\ before.status = "In Progress"
                      /\ after.status = "Failed"
                      /\ fout.now - before.timestamp > stale_hours
                      /\ after.task = "running" \/ before.task = "ended"]_vars

-----------------------------------------------------------------------------
(* Claims about the fallback and the mock blueprint in later runs (Spec) *)

\* the blueprints call_llm_for_tags returns without an answer of the service
Substitutes == {Fallback("full"), MockTags("full")}

\* C38: a fallback or mock blueprint passes the validity check, is rendered
\* (Genre becomes its primary_genre) and is stored unless the write fails;
\* and a track for whose (Name, Artist) the store holds such a blueprint is
\* a cache hit at its check, with no call of the classifier, unless the
\* read fails.
C38_SubstituteIsCached ==
    [][/\ (TagsStep /\ ~run.blueprint.none /\ run.blueprint.d \in Substitutes) =>
             /\ ~BlueprintInvalid(run.blueprint)
             /\ tracks'[run.index].Genre =
                   Attr(run.blueprint.d.primary_genre.s)
             /\ obs'.saved = "blueprint"
             /\ obs'.write_ok =>
                   \E r \in RowsOf(store', TrackInHand) : ~r.tags.null
       /\ (CheckStep /\ \E r \in RowsOf(store, TrackInHand) :
                           /\ ~r.tags.null
                           /\ json_loads(r.tags) \in Substitutes) =>
             \/ ~obs'.read_ok
             \/ obs'.hit /\ obs'.calls = 0 /\ call' = NoCall]_vars

-----------------------------------------------------------------------------
(* Claims about the files of a split (SpecFiles) *)

\* C39: when the split has returned, every track of the input is in exactly
\* one created file, the Entries of each created file is the number of its
\* tracks, and no created file is without tracks.
C39_FilesPartitionTracks ==
    (fin.op = "files" /\ fout.status = "returned") =>
       /\ \A i \in DOMAIN tracks :
             Cardinality({f \in fout.created_files :
                             i \in fout.files[f].tracks}) = 1
       /\ \A f \in fout.created_files :
             /\ fout.files[f].Entries = Cardinality(fout.files[f].tracks)
             /\ fout.files[f].tracks # {}

-----------------------------------------------------------------------------
(* Colour, Grouping and Rating of a rendered TRACK together (SpecTrack) *)

StaircaseTriples ==
    { <<"0xFF007F", "Pink", "255">>, <<"0xFFA500", "Orange", "204">>,
      <<"0xFFFF00", "Yellow", "153">>, <<"0x00FF00", "Green", "102">>,
      <<"0x25FDE9", "Aqua", "51">> }

\* Colour, Grouping and Rating agree: none with Rating 0, or one triple
Agree(track) ==
    \/ /\ track.Colour = NoAttr
       /\ track.Grouping = NoAttr
       /\ track.Rating = Attr(<<"0">>)
    \/ \E t \in StaircaseTriples :
          /\ track.Colour = Attr(<<t[1]>>)
          /\ track.Grouping = Attr(<<t[2]>>)
          /\ track.Rating = Attr(<<t[3]>>)

\* C40: after the render of a track that is not pinned, whatever the
\* energy_level of the blueprint, either Colour and Grouping are absent and
\* Rating is 0, or Colour, Grouping and Rating are one of the five triples
\* of the staircase.
C40_ColourGroupingRatingAgree ==
    (fin.op = "render" /\ fout # <<>> /\ ~Pinned(fin.track)) =>
       Agree(fout[1])

====
